---- MODULE Spec2Model ----
(***************************************************************************)
(* Verification model of the WAHA channel adapter: target normalizer,      *)
(* inbound access control, webhook ingestion endpoint, message handler of  *)
(* the provider monitor and the outbound sendPayload dispatch.             *)
(*                                                                         *)
(* Strings are sequences of lexical tokens.  A token stands for a run of   *)
(* characters the regular expressions of normalize.ts treat as a unit:     *)
(* a digit, "+", a blank, some other character ("x"), the scheme prefix    *)
(* and its qualifiers, and the chat-id suffixes.                           *)
(***************************************************************************)
EXTENDS Integers, Sequences, FiniteSets, TLC

----------------------------------------------------------------------------
(* Bounds *)

\* longest digit run of a phone number in the explored inputs
MaxDigits == 1

----------------------------------------------------------------------------
(* Optional values (JavaScript undefined) *)

None == {}

Some(x) == {x}

OrElse(opt, dflt) == IF opt = {} THEN dflt ELSE CHOOSE x \in opt : TRUE

\* the value a result field holds when the code leaves it undefined
Undefined == "undefined"

----------------------------------------------------------------------------
(* String primitives over token sequences *)

DigitTok == {"1", "2"}

SchemeTok == {"waha:", "WAHA:"}

QualifierTok == {"user:", "group:"}

DirectSuffixTok == {"@c.us", "@C.US"}

IsDigit(t) == t \in DigitTok

\* String.prototype.startsWith for a one-token needle
StartsWith(s, t) == Len(s) >= 1 /\ s[1] = t

\* String.prototype.endsWith for a one-token needle (case-sensitive)
EndsWith(s, t) == Len(s) >= 1 /\ s[Len(s)] = t

RECURSIVE TrimLeft(_)
TrimLeft(s) == IF s # <<>> /\ Head(s) = " " THEN TrimLeft(Tail(s)) ELSE s

RECURSIVE TrimRight(_)
TrimRight(s) ==
    IF s # <<>> /\ s[Len(s)] = " " THEN TrimRight(SubSeq(s, 1, Len(s) - 1)) ELSE s

\* String.prototype.trim
Trim(s) == TrimRight(TrimLeft(s))

\* s.replace(/\D/g, "")
OnlyDigits(s) == SelectSeq(s, IsDigit)

\* s.replace(/^waha:(?:user:|group:)?/i, ""): one prefix, one optional qualifier
StripWahaPrefix(s) ==
    IF Len(s) >= 1 /\ s[1] \in SchemeTok
    THEN IF Len(s) >= 2 /\ s[2] \in QualifierTok
         THEN SubSeq(s, 3, Len(s))
         ELSE SubSeq(s, 2, Len(s))
    ELSE s

\* s.match(/^(\d+)@c\.us$/i): the digit run, or None when there is no match
MatchDirectChatId(s) ==
    IF /\ Len(s) >= 2
       /\ s[Len(s)] \in DirectSuffixTok
       /\ \A i \in 1..(Len(s) - 1) : IsDigit(s[i])
    THEN Some(SubSeq(s, 1, Len(s) - 1))
    ELSE None

----------------------------------------------------------------------------
(* normalize.ts *)

\* e164ToChatId without the removal of the non-digit characters
e164ToChatId_KeepsPlus(e164) == e164 \o <<"@c.us">>

e164ToChatId(e164) ==
    LET digits == OnlyDigits(e164)
    IN IF digits = <<>> THEN e164 ELSE digits \o <<"@c.us">>

chatIdToE164(chatId) ==
    LET match == MatchDirectChatId(chatId)
        digits == OnlyDigits(chatId)
    IN IF match # None THEN <<"+">> \o OrElse(match, <<>>)
       ELSE IF StartsWith(chatId, "+") THEN chatId
       ELSE IF digits # <<>> THEN <<"+">> \o digits
       ELSE chatId

isGroupChatId(chatId) == EndsWith(chatId, "@g.us") \/ EndsWith(chatId, "@newsletter")

isDirectChatId(chatId) == EndsWith(chatId, "@c.us")

normalizeWahaTarget(target) ==
    LET stripped == StripWahaPrefix(Trim(target))
        digits == OnlyDigits(stripped)
    IN IF \/ EndsWith(stripped, "@c.us")
          \/ EndsWith(stripped, "@g.us")
          \/ EndsWith(stripped, "@newsletter")
       THEN stripped
       ELSE IF StartsWith(stripped, "+") THEN e164ToChatId(stripped)
       ELSE IF digits # <<>> /\ digits = stripped THEN digits \o <<"@c.us">>
       ELSE stripped

\* normalizeWahaAllowEntry without the conversion of <digits>@c.us entries
normalizeWahaAllowEntry_KeepsChatId(entry) ==
    LET stripped == StripWahaPrefix(Trim(entry))
        digits == OnlyDigits(stripped)
    IN IF StartsWith(stripped, "+") THEN stripped
       ELSE IF digits # <<>> /\ digits = stripped THEN <<"+">> \o digits
       ELSE stripped

normalizeWahaAllowEntry(entry) ==
    LET stripped == StripWahaPrefix(Trim(entry))
        match == MatchDirectChatId(stripped)
        digits == OnlyDigits(stripped)
    IN IF match # None THEN <<"+">> \o OrElse(match, <<>>)
       ELSE IF StartsWith(stripped, "+") THEN stripped
       ELSE IF digits # <<>> /\ digits = stripped THEN <<"+">> \o digits
       ELSE stripped

----------------------------------------------------------------------------
(* State *)

VARIABLES
    acIn,           \* access-control evaluation: the payload, account and store
    acOut,          \* access-control evaluation: the context and decision
    account,        \* the resolved account the monitor was started with
    pairingStore,   \* the host's pairing store (readAllowFromStore)
    runtimeState,   \* the account's entry of the monitor's runtimeState map
    h,              \* the webhook handler invocation in progress
    op,             \* the outbound sendPayload dispatch in progress
    call,           \* the application of a pure function under examination
    gw,             \* the gateway: account lifecycles and the HTTP route registry
    i18n            \* the CLI i18n module: its state, the environment, the last call

accessVars == <<acIn, acOut>>

webhookVars == <<account, pairingStore, runtimeState, h>>

outboundVars == <<op>>

callVars == <<call>>

gatewayVars == <<gw>>

i18nVars == <<i18n>>

vars == <<acIn, acOut, account, pairingStore, runtimeState, h, op, call, gw, i18n>>

----------------------------------------------------------------------------
(* monitor: buildMsgContext and checkInboundAccessControl *)

\* the fields of the context that depend on the sender and chat identifiers
buildMsgContext(payload, accountId) ==
    LET senderId == OrElse(payload.participant, payload.from)
        isGroup == isGroupChatId(payload.from)
        chatId == payload.from
    IN [ From |-> chatId,
         SessionKey |-> <<"waha:", accountId, ":">> \o chatId,
         ChatType |-> IF isGroup THEN "group" ELSE "direct",
         SenderId |-> senderId,
         SenderE164 |-> chatIdToE164(senderId),
         isGroup |-> isGroup ]

\* the Set of normalized entries of an allow-list
NormalizedAllowSet(list) == { normalizeWahaAllowEntry(list[i]) : i \in 1..Len(list) }

Allowed == [allowed |-> TRUE, reason |-> Undefined]

Rejected(reason) == [allowed |-> FALSE, reason |-> reason]

\* checkInboundAccessControl with the unset dmPolicy defaulting to "allowlist"
checkInboundAccessControl_DefaultAllowlist(senderId, senderE164, isGroup, config, store) ==
    LET dmPolicy == IF config.dmPolicy = Undefined THEN "allowlist" ELSE config.dmPolicy
        groupPolicy ==
            IF config.groupPolicy = Undefined THEN "allowlist" ELSE config.groupPolicy
        normalizedGroupAllowFrom == NormalizedAllowSet(OrElse(config.groupAllowFrom, <<>>))
        combinedAllowFrom == OrElse(config.allowFrom, <<>>) \o OrElse(store, <<>>)
        normalizedDmAllowFrom == NormalizedAllowSet(combinedAllowFrom)
    IN IF isGroup
       THEN IF groupPolicy = "disabled" THEN Rejected("groups disabled")
            ELSE IF /\ groupPolicy = "allowlist"
                    /\ senderE164 \notin normalizedGroupAllowFrom
                    /\ senderId \notin normalizedGroupAllowFrom
                 THEN Rejected("sender not in group allowlist")
            ELSE Allowed
       ELSE IF dmPolicy = "disabled" THEN Rejected("DMs disabled")
            ELSE IF dmPolicy = "open" THEN Allowed
            ELSE IF \/ senderE164 \in normalizedDmAllowFrom
                    \/ senderId \in normalizedDmAllowFrom
                 THEN Allowed
            ELSE IF dmPolicy = "pairing" THEN Rejected("pairing required")
            ELSE Rejected("sender not in allowlist")

\* checkInboundAccessControl with the group branch also admitting senders of the
\* combined direct-message allow-list
checkInboundAccessControl_GroupReadsDmList(senderId, senderE164, isGroup, config, store) ==
    LET dmPolicy == IF config.dmPolicy = Undefined THEN "pairing" ELSE config.dmPolicy
        groupPolicy ==
            IF config.groupPolicy = Undefined THEN "allowlist" ELSE config.groupPolicy
        combinedAllowFrom == OrElse(config.allowFrom, <<>>) \o OrElse(store, <<>>)
        normalizedDmAllowFrom == NormalizedAllowSet(combinedAllowFrom)
        normalizedGroupAllowFrom ==
            NormalizedAllowSet(OrElse(config.groupAllowFrom, <<>>)) \cup normalizedDmAllowFrom
    IN IF isGroup
       THEN IF groupPolicy = "disabled" THEN Rejected("groups disabled")
            ELSE IF /\ groupPolicy = "allowlist"
                    /\ senderE164 \notin normalizedGroupAllowFrom
                    /\ senderId \notin normalizedGroupAllowFrom
                 THEN Rejected("sender not in group allowlist")
            ELSE Allowed
       ELSE IF dmPolicy = "disabled" THEN Rejected("DMs disabled")
            ELSE IF dmPolicy = "open" THEN Allowed
            ELSE IF \/ senderE164 \in normalizedDmAllowFrom
                    \/ senderId \in normalizedDmAllowFrom
                 THEN Allowed
            ELSE IF dmPolicy = "pairing" THEN Rejected("pairing required")
            ELSE Rejected("sender not in allowlist")

checkInboundAccessControl(senderId, senderE164, isGroup, config, store) ==
    LET dmPolicy == IF config.dmPolicy = Undefined THEN "pairing" ELSE config.dmPolicy
        groupPolicy ==
            IF config.groupPolicy = Undefined THEN "allowlist" ELSE config.groupPolicy
        normalizedGroupAllowFrom == NormalizedAllowSet(OrElse(config.groupAllowFrom, <<>>))
        combinedAllowFrom == OrElse(config.allowFrom, <<>>) \o OrElse(store, <<>>)
        normalizedDmAllowFrom == NormalizedAllowSet(combinedAllowFrom)
    IN IF isGroup
       THEN IF groupPolicy = "disabled" THEN Rejected("groups disabled")
            ELSE IF /\ groupPolicy = "allowlist"
                    /\ senderE164 \notin normalizedGroupAllowFrom
                    /\ senderId \notin normalizedGroupAllowFrom
                 THEN Rejected("sender not in group allowlist")
            ELSE Allowed
       ELSE IF dmPolicy = "disabled" THEN Rejected("DMs disabled")
            ELSE IF dmPolicy = "open" THEN Allowed
            ELSE IF \/ senderE164 \in normalizedDmAllowFrom
                    \/ senderId \in normalizedDmAllowFrom
                 THEN Allowed
            ELSE IF dmPolicy = "pairing" THEN Rejected("pairing required")
            ELSE Rejected("sender not in allowlist")

----------------------------------------------------------------------------
(* Explored inputs of the access-control evaluation *)

RECURSIVE DigitRuns(_)
DigitRuns(n) ==
    IF n = 0 THEN {}
    ELSE { <<d>> : d \in DigitTok } \cup
         { <<d>> \o r : d \in DigitTok, r \in DigitRuns(n - 1) }

\* the phone numbers: non-empty digit runs up to MaxDigits
Numbers == DigitRuns(MaxDigits)

DmPolicies == {"open", "allowlist", "pairing", "disabled", Undefined}

GroupPolicies == {"open", "allowlist", "disabled", Undefined}

\* the spellings of a number an allow-list may hold, and spellings near them
BareForms(n) ==
    { <<"+">> \o n, n, n \o <<"@c.us">>, n \o <<"@C.US">>, n \o <<"@g.us">>,
      <<" ">> \o n \o <<" ">>, <<"+">> \o n \o <<"x">> }

PrefixedForms(n) ==
    { p \o f : p \in { <<"waha:">>, <<"WAHA:">>, <<"waha:", "user:">>,
                       <<"waha:", "group:">>, <<"waha:", " ">>, <<"waha:", "waha:">> },
               f \in { <<"+">> \o n, n, n \o <<"@c.us">> } }

AllowEntries == UNION { BareForms(n) \cup PrefixedForms(n) : n \in Numbers }

\* an allow-list of the configuration: undefined, empty or one entry
AllowLists == { None, Some(<<>>) } \cup { Some(<<e>>) : e \in AllowEntries }

\* a small allow-list, for the fields the evaluated branch must not read
FewAllowLists == { None } \cup { Some(<<(<<"+">> \o n)>>) : n \in Numbers }

\* the pairing store holds the E.164 form of approved senders
StoreLists == { None } \cup { Some(<<(<<"+">> \o n)>>) : n \in Numbers }

GroupIds == { <<"1", "@g.us">>, <<"2", "@newsletter">> }

DirectPayloads ==
    { [from |-> n \o <<"@c.us">>, participant |-> None] : n \in Numbers }

GroupPayloads ==
    { [from |-> g, participant |-> p] :
        g \in GroupIds,
        p \in { None } \cup { Some(n \o <<"@c.us">>) : n \in Numbers } }

Config(dp, gp, af, gaf) ==
    [dmPolicy |-> dp, groupPolicy |-> gp, allowFrom |-> af, groupAllowFrom |-> gaf]

NoInput == [chosen |-> FALSE]

NoDecision == [evaluated |-> FALSE]

\* the webhook variables while a specification does not use them
WebhookUnused ==
    /\ account = [accountId |-> "default"]
    /\ pairingStore = None
    /\ runtimeState = [running |-> FALSE]
    /\ h = [pc |-> "unused"]

\* the outbound variable while a specification does not use it
OutboundUnused == op = [pc |-> "unused"]

\* the call variable while a specification does not use it
CallUnused == call = [pc |-> "unused"]

\* the gateway variable while a specification does not use it
GatewayUnused == gw = [pc |-> "unused"]

\* the i18n variable while a specification does not use it
I18nUnused == i18n = [pc |-> "unused"]

AccessInit ==
    /\ acIn = NoInput
    /\ acOut = NoDecision
    /\ WebhookUnused
    /\ OutboundUnused
    /\ CallUnused
    /\ GatewayUnused
    /\ I18nUnused

\* a direct message arrives: the lists the direct branch reads vary widely
ReceiveDirect ==
    /\ acIn = NoInput
    /\ \E p \in DirectPayloads, dp \in DmPolicies, gp \in GroupPolicies,
          af \in AllowLists, gaf \in FewAllowLists, st \in StoreLists :
            acIn' = [chosen |-> TRUE, payload |-> p,
                     config |-> Config(dp, gp, af, gaf), store |-> st]
    /\ UNCHANGED <<acOut, webhookVars, outboundVars, callVars, gatewayVars, i18nVars>>

\* a group message arrives: the list the group branch reads varies widely
ReceiveGroup ==
    /\ acIn = NoInput
    /\ \E p \in GroupPayloads, dp \in DmPolicies, gp \in GroupPolicies,
          af \in FewAllowLists, gaf \in AllowLists, st \in StoreLists :
            acIn' = [chosen |-> TRUE, payload |-> p,
                     config |-> Config(dp, gp, af, gaf), store |-> st]
    /\ UNCHANGED <<acOut, webhookVars, outboundVars, callVars, gatewayVars, i18nVars>>

\* handleMessage up to its access decision
EvaluateAccess ==
    /\ acIn # NoInput
    /\ acOut = NoDecision
    /\ LET ctx == buildMsgContext(acIn.payload, "default")
       IN acOut' = [ evaluated |-> TRUE,
                     ctx |-> ctx,
                     access |-> checkInboundAccessControl(
                                   ctx.SenderId, ctx.SenderE164, ctx.isGroup,
                                   acIn.config, acIn.store) ]
    /\ UNCHANGED <<acIn, webhookVars, outboundVars, callVars, gatewayVars, i18nVars>>

AccessNext == ReceiveDirect \/ ReceiveGroup \/ EvaluateAccess

SpecAccess == AccessInit /\ [][AccessNext]_vars

----------------------------------------------------------------------------
(* webhook-handler: request values *)

\* a request header: absent, one string value, or repeated (an array of values)
HdrUndefined == [kind |-> "undefined"]

HdrString(v) == [kind |-> "string", value |-> v]

HdrArray == [kind |-> "array"]

\* the raw body before it is read
NoBody == [json |-> "unread"]

\* raw bodies: text that is not JSON, the JSON text null, an event envelope
GarbageBody == [json |-> "invalid"]

NullBody == [json |-> "null"]

Envelope(event, payload) ==
    [json |-> "object", event |-> event, session |-> "s", payload |-> payload]

MessageEvents == {"message", "message.any"}

\* an event of the trace of one handler invocation
Ev(name) == [ev |-> name]

Respond(status, contentType, body, allow) ==
    [ev |-> "respond", status |-> status, contentType |-> contentType,
     body |-> body, allow |-> allow]

LogError(what) == [ev |-> "logError", what |-> what]

\* res.headersSent
headersSent(trace) == \E i \in 1..Len(trace) : trace[i].ev = "respond"

----------------------------------------------------------------------------
(* webhook-handler: validateWahaHmac *)

\* the hash functions crypto.createHmac knows; digests are scaled to two hex
\* digits for sha512 and one for sha256
KnownAlgorithms == {"sha512", "sha256"}

DigestLength(algorithm) == IF algorithm = "sha512" THEN 2 ELSE 1

\* a number the digest mixes in for each distinct raw body
BodyCode(rawBody) ==
    IF rawBody.json = "invalid" THEN 0
    ELSE IF rawBody.json = "null" THEN 1
    ELSE (IF rawBody.event = "message" THEN 2
          ELSE IF rawBody.event = "message.any" THEN 3
          ELSE IF rawBody.event = "message.reaction" THEN 5
          ELSE IF rawBody.event = "session.status" THEN 6
          ELSE 7)
         + (IF rawBody.payload = None THEN 0 ELSE 1)

KeyCode(hmacKey) == IF hmacKey = "k1" THEN 1 ELSE 2

\* crypto.createHmac(algorithm, key).update(rawBody).digest("hex")
HmacHexDigest(algorithm, hmacKey, rawBody) ==
    LET n == DigestLength(algorithm)
        v == (3 * BodyCode(rawBody) + KeyCode(hmacKey) + n) % (2 ^ n)
    IN [i \in 1..n |-> IF (v \div (2 ^ (n - i))) % 2 = 1 THEN "1" ELSE "0"]

Threw == [threw |-> TRUE, value |-> FALSE]

Returned(v) == [threw |-> FALSE, value |-> v]

\* crypto.timingSafeEqual: a RangeError unless both buffers have one length
timingSafeEqual(a, b) == IF Len(a) # Len(b) THEN Threw ELSE Returned(a = b)

\* validateWahaHmac comparing only the first digit of the digest
validateWahaHmac_FirstDigitOnly(rawBody, signature, hmacKey, algorithm) ==
    IF algorithm \notin KnownAlgorithms THEN Threw
    ELSE LET computed == HmacHexDigest(algorithm, hmacKey, rawBody)
         IN IF Len(computed) # Len(signature) THEN Threw
            ELSE Returned(computed[1] = signature[1])

validateWahaHmac(rawBody, signature, hmacKey, algorithm) ==
    IF algorithm \notin KnownAlgorithms THEN Threw
    ELSE timingSafeEqual(HmacHexDigest(algorithm, hmacKey, rawBody), signature)

\* lines 122-141: "pass", "missing", "invalid", or "throw" when validation throws
hmacGate(hmacKey, sigHdr, algHdr, rawBody) ==
    IF hmacKey = None \/ hmacKey = Some("") THEN "pass"
    ELSE IF sigHdr.kind # "string" THEN "missing"
    ELSE IF sigHdr.value = <<>> THEN "missing"
    ELSE LET algorithm == IF algHdr.kind = "undefined" THEN "sha512"
                          ELSE IF algHdr.kind = "string" THEN algHdr.value
                          ELSE "[object Array]"
             v == validateWahaHmac(rawBody, sigHdr.value, OrElse(hmacKey, ""), algorithm)
         IN IF v.threw THEN "throw"
            ELSE IF v.value THEN "pass"
            ELSE "invalid"


----------------------------------------------------------------------------
(* Bounds and constants of the reply path *)

\* most chunks one reply text splits into in the explored replies
MaxChunks == 2

\* most media URLs of one explored reply
MaxMedia == 1

\* most deliver calls the host's reply pipeline makes for one message
MaxDelivers == 1

\* the chunk limit passed to chunkMarkdownText
TextChunkLimit == 4000

----------------------------------------------------------------------------
(* Texts, chunking and outbound calls *)

\* a text is its length and whether it holds only white space; the empty text
\* (also what an undefined text becomes) has length 0
Text(len, blank) == [len |-> len, blank |-> blank]

\* text.trim() is truthy
HasContent(text) == text.len > 0 /\ ~text.blank

\* the host's chunkMarkdownText(text, limit): consecutive pieces of at most limit
\* characters, here the ranges lo..hi of the text
chunkMarkdownText(text, limit) ==
    LET n == (text.len + limit - 1) \div limit
    IN [i \in 1..n |->
          [kind |-> "chunk", lo |-> (i - 1) * limit + 1,
           hi |-> IF i * limit < text.len THEN i * limit ELSE text.len]]

PairingText == [kind |-> "pairing"]

ApologyText == [kind |-> "apology"]

\* client.sendText / sendImage / sendLocation: one HTTP request each
SendText(chatId, text) == [ev |-> "sendText", chatId |-> chatId, text |-> text]

SendImage(chatId, url) == [ev |-> "sendImage", chatId |-> chatId, url |-> url]

SendLocation(chatId, location) ==
    [ev |-> "sendLocation", chatId |-> chatId, location |-> location]

\* the promise of the call in flight resolved (ok) or rejected
Settled(ok) == [ev |-> "settled", ok |-> ok]

SendEvents == {"sendText", "sendImage", "sendLocation"}

\* the reply texts explored: empty, blank, and one text for each chunk count
ReplyTexts ==
    { Text(0, TRUE), Text(1, TRUE) } \cup
    { Text((k - 1) * TextChunkLimit + 1, FALSE) : k \in 1..MaxChunks } \cup
    { Text(MaxChunks * TextChunkLimit, FALSE) }

\* the media lists explored: u1..um for each m up to MaxMedia
MediaLists == { [i \in 1..m |-> <<"u", i>>] : m \in 0..MaxMedia }

----------------------------------------------------------------------------
(* monitor: runtime state *)

\* recordChannelRuntimeState: the patch's fields overwrite the entry's
recordChannelRuntimeState(existing, patch) ==
    [k \in DOMAIN existing |-> IF k \in DOMAIN patch THEN patch[k] ELSE existing[k]]

\* the entry after monitorWahaProvider recorded its start (lines 515-522)
StartedRuntimeState ==
    [running |-> TRUE, lastStartAt |-> "now", lastStopAt |-> "null",
     lastError |-> "null", lastInboundAt |-> Undefined, lastOutboundAt |-> Undefined]

----------------------------------------------------------------------------
(* monitor: handleMessage *)

\* the sends of one deliver call, in program order (lines 589-613)
deliverSends(replyPayload, chatId) ==
    LET chunks == IF HasContent(replyPayload.text)
                  THEN chunkMarkdownText(replyPayload.text, TextChunkLimit)
                  ELSE <<>>
        mediaUrls == replyPayload.mediaUrls
    IN [i \in 1..Len(chunks) |-> SendText(chatId, chunks[i])] \o
       [j \in 1..Len(mediaUrls) |-> SendImage(chatId, mediaUrls[j])]

\* handleMessage that sends the pairing instructions without recording the
\* pairing request
handleMessage_NoUpsert(hd, rs, payload, acct, store) ==
    LET ctx == buildMsgContext(payload, acct.accountId)
        rs1 == recordChannelRuntimeState(rs, [lastInboundAt |-> "now"])
        access == checkInboundAccessControl(ctx.SenderId, ctx.SenderE164, ctx.isGroup,
                                            acct.config, store)
        tr1 == hd.trace \o << [ev |-> "onMessage", payload |-> payload],
                              [ev |-> "checkAccess", ctx |-> ctx, access |-> access] >>
    IN IF ~access.allowed
       THEN IF access.reason = "pairing required"
            THEN [h |-> [hd EXCEPT
                          !.pc = "pairingSend",
                          !.trace = tr1 \o
                            << [ev |-> "buildPairingReply", senderId |-> ctx.SenderE164],
                               SendText(normalizeWahaTarget(ctx.From), PairingText) >>],
                  rs |-> rs1]
            ELSE [h |-> [hd EXCEPT !.pc = "done", !.trace = tr1], rs |-> rs1]
       ELSE [h |-> [hd EXCEPT !.pc = "dispatching",
                              !.trace = Append(tr1, [ev |-> "dispatchReply", ctx |-> ctx])],
             rs |-> rs1]

\* handleMessage answering every rejection with the pairing instructions
handleMessage_RepliesToRejected(hd, rs, payload, acct, store) ==
    LET ctx == buildMsgContext(payload, acct.accountId)
        rs1 == recordChannelRuntimeState(rs, [lastInboundAt |-> "now"])
        access == checkInboundAccessControl(ctx.SenderId, ctx.SenderE164, ctx.isGroup,
                                            acct.config, store)
        tr1 == hd.trace \o << [ev |-> "onMessage", payload |-> payload],
                              [ev |-> "checkAccess", ctx |-> ctx, access |-> access] >>
    IN IF ~access.allowed
       THEN [h |-> [hd EXCEPT
                     !.pc = "pairingSend",
                     !.trace = tr1 \o
                       << [ev |-> "buildPairingReply", senderId |-> ctx.SenderE164],
                          [ev |-> "upsertPairingRequest", senderId |-> ctx.SenderE164],
                          SendText(normalizeWahaTarget(ctx.From), PairingText) >>],
             rs |-> rs1]
       ELSE [h |-> [hd EXCEPT !.pc = "dispatching",
                              !.trace = Append(tr1, [ev |-> "dispatchReply", ctx |-> ctx])],
             rs |-> rs1]

\* handleMessage up to its first await (lines 525-626); hd is the handler
\* invocation, rs the runtime state entry
handleMessage(hd, rs, payload, acct, store) ==
    LET ctx == buildMsgContext(payload, acct.accountId)
        rs1 == recordChannelRuntimeState(rs, [lastInboundAt |-> "now"])
        access == checkInboundAccessControl(ctx.SenderId, ctx.SenderE164, ctx.isGroup,
                                            acct.config, store)
        tr1 == hd.trace \o << [ev |-> "onMessage", payload |-> payload],
                              [ev |-> "checkAccess", ctx |-> ctx, access |-> access] >>
    IN IF ~access.allowed
       THEN IF access.reason = "pairing required"
            THEN [h |-> [hd EXCEPT
                          !.pc = "pairingSend",
                          !.trace = tr1 \o
                            << [ev |-> "buildPairingReply", senderId |-> ctx.SenderE164],
                               [ev |-> "upsertPairingRequest", senderId |-> ctx.SenderE164],
                               SendText(normalizeWahaTarget(ctx.From), PairingText) >>],
                  rs |-> rs1]
            ELSE [h |-> [hd EXCEPT !.pc = "done", !.trace = tr1], rs |-> rs1]
       ELSE [h |-> [hd EXCEPT !.pc = "dispatching",
                              !.trace = Append(tr1, [ev |-> "dispatchReply", ctx |-> ctx])],
             rs |-> rs1]

----------------------------------------------------------------------------
(* webhook-handler: the request handler *)

\* handlerCatch without the test of res.headersSent
handlerCatch_AlwaysResponds(hd) ==
    [hd EXCEPT
       !.pc = "done",
       !.trace = hd.trace \o << LogError("webhook error"),
                                Respond(500, "application/json",
                                        "error: Internal server error", "") >>]

\* the catch block of the handler (lines 185-192)
handlerCatch(hd) ==
    LET tr1 == Append(hd.trace, LogError("webhook error"))
    IN [hd EXCEPT
          !.pc = "done",
          !.trace = IF headersSent(hd.trace) THEN tr1
                    ELSE Append(tr1, Respond(500, "application/json",
                                             "error: Internal server error", ""))]

\* dispatchEvent without the test of payload.fromMe
dispatchEvent_NoEchoCheck(hd, rs, env, acct, store) ==
    IF env.event \in MessageEvents
    THEN IF env.payload = None THEN [h |-> handlerCatch(hd), rs |-> rs]
         ELSE handleMessage(hd, rs, OrElse(env.payload, <<>>), acct, store)
    ELSE IF env.event = "message.reaction"
    THEN LET hd1 == [hd EXCEPT !.trace = Append(hd.trace, Ev("onReaction"))]
         IN IF env.payload = None THEN [h |-> handlerCatch(hd1), rs |-> rs]
            ELSE [h |-> [hd1 EXCEPT !.pc = "done"], rs |-> rs]
    ELSE IF env.event = "session.status"
    THEN LET hd1 == [hd EXCEPT !.trace = Append(hd.trace, Ev("onSessionStatus"))]
         IN IF env.payload = None THEN [h |-> handlerCatch(hd1), rs |-> rs]
            ELSE [h |-> [hd1 EXCEPT !.pc = "done"],
                  rs |-> IF OrElse(env.payload, <<>>).status = "FAILED"
                         THEN recordChannelRuntimeState(rs, [lastError |-> "Session failed"])
                         ELSE rs]
    ELSE [h |-> [hd EXCEPT !.pc = "done"], rs |-> rs]

\* dispatchEvent treating an event kind it does not know as an error
dispatchEvent_UnknownIsError(hd, rs, env, acct, store) ==
    IF env.event \in MessageEvents \cup {"message.reaction", "session.status"}
    THEN dispatchEvent_NoEchoCheck(hd, rs, env, acct, store)
    ELSE [h |-> [hd EXCEPT !.pc = "done",
                           !.trace = Append(hd.trace, LogError("webhook error"))],
          rs |-> rs]

\* the switch on the event kind (lines 152-184), run after the response
dispatchEvent(hd, rs, env, acct, store) ==
    IF env.event \in MessageEvents
    THEN IF env.payload = None THEN [h |-> handlerCatch(hd), rs |-> rs]
         ELSE LET msgPayload == OrElse(env.payload, <<>>)
              IN IF msgPayload.fromMe THEN [h |-> [hd EXCEPT !.pc = "done"], rs |-> rs]
                 ELSE handleMessage(hd, rs, msgPayload, acct, store)
    ELSE IF env.event = "message.reaction"
    THEN LET hd1 == [hd EXCEPT !.trace = Append(hd.trace, Ev("onReaction"))]
         IN IF env.payload = None THEN [h |-> handlerCatch(hd1), rs |-> rs]
            ELSE [h |-> [hd1 EXCEPT !.pc = "done"], rs |-> rs]
    ELSE IF env.event = "session.status"
    THEN LET hd1 == [hd EXCEPT !.trace = Append(hd.trace, Ev("onSessionStatus"))]
         IN IF env.payload = None THEN [h |-> handlerCatch(hd1), rs |-> rs]
            ELSE [h |-> [hd1 EXCEPT !.pc = "done"],
                  rs |-> IF OrElse(env.payload, <<>>).status = "FAILED"
                         THEN recordChannelRuntimeState(rs, [lastError |-> "Session failed"])
                         ELSE rs]
    ELSE [h |-> [hd EXCEPT !.pc = "done"], rs |-> rs]

\* acceptBody that writes the 200 response after the event was dispatched
acceptBody_RespondAfterDispatch(hd, rs, rawBody, acct, store) ==
    IF rawBody.json = "invalid" THEN [h |-> handlerCatch(hd), rs |-> rs]
    ELSE LET hd1 == [hd EXCEPT !.trace = Append(hd.trace, Ev("jsonParse"))]
             r == IF rawBody.json = "null" THEN [h |-> handlerCatch(hd1), rs |-> rs]
                  ELSE dispatchEvent(hd1, rs, rawBody, acct, store)
         IN [r EXCEPT !.h.trace =
                IF headersSent(r.h.trace) THEN r.h.trace
                ELSE Append(r.h.trace,
                            Respond(200, "application/json", "status: ok", ""))]

\* parse, respond 200, then dispatch (lines 143-184)
acceptBody(hd, rs, rawBody, acct, store) ==
    IF rawBody.json = "invalid" THEN [h |-> handlerCatch(hd), rs |-> rs]
    ELSE LET hd1 == [hd EXCEPT !.trace = hd.trace \o
                        << Ev("jsonParse"),
                           Respond(200, "application/json", "status: ok", "") >>]
         IN IF rawBody.json = "null" THEN [h |-> handlerCatch(hd1), rs |-> rs]
            ELSE dispatchEvent(hd1, rs, rawBody, acct, store)

\* the handler from the read body to its next await (lines 119-192)
handlePostBody(hd, rs, rawBody, acct, store) ==
    LET gate == hmacGate(acct.hmacKey, hd.sig, hd.alg, rawBody)
        hd0 == [hd EXCEPT !.body = rawBody]
    IN IF gate = "missing"
       THEN [h |-> [hd0 EXCEPT !.pc = "done",
                      !.trace = Append(hd.trace, Respond(401, "application/json",
                                          "error: Missing HMAC signature", ""))],
             rs |-> rs]
       ELSE IF gate = "invalid"
       THEN [h |-> [hd0 EXCEPT !.pc = "done",
                      !.trace = Append(hd.trace, Respond(401, "application/json",
                                          "error: Invalid HMAC signature", ""))],
             rs |-> rs]
       ELSE IF gate = "throw" THEN [h |-> handlerCatch(hd0), rs |-> rs]
       ELSE acceptBody(hd0, rs, rawBody, acct, store)

\* handleRequest answering 405 to every method but POST
handleRequest_PostOnly(hd, method, sigHdr, algHdr) ==
    LET hd0 == [hd EXCEPT !.method = method, !.sig = sigHdr, !.alg = algHdr]
    IN IF method # "POST"
       THEN [hd0 EXCEPT !.pc = "done",
                        !.trace = <<Respond(405, "application/json",
                                            "error: Method Not Allowed", "GET, POST")>>]
       ELSE [hd0 EXCEPT !.pc = "readBody"]

\* the handler from the request to its first await (lines 100-119)
handleRequest(hd, method, sigHdr, algHdr) ==
    LET hd0 == [hd EXCEPT !.method = method, !.sig = sigHdr, !.alg = algHdr]
    IN IF method = "GET"
       THEN [hd0 EXCEPT !.pc = "done",
                        !.trace = <<Respond(200, "text/plain", "OK", "")>>]
       ELSE IF method # "POST"
       THEN [hd0 EXCEPT !.pc = "done",
                        !.trace = <<Respond(405, "application/json",
                                            "error: Method Not Allowed", "GET, POST")>>]
       ELSE [hd0 EXCEPT !.pc = "readBody"]

IdleHandler ==
    [pc |-> "idle", method |-> "", sig |-> HdrUndefined, alg |-> HdrUndefined,
     body |-> NoBody, trace |-> <<>>, todo |-> <<>>, delivers |-> 0]


----------------------------------------------------------------------------
(* Steps of one webhook request: the handler and the message handler run to
   their next await in one step *)

\* a request arrives at the registered route
Receive(methods, sigHdrs, algHdrs) ==
    /\ h.pc = "idle"
    /\ \E method \in methods, sigHdr \in sigHdrs, algHdr \in algHdrs :
          h' = handleRequest(h, method, sigHdr, algHdr)
    /\ UNCHANGED <<account, pairingStore, runtimeState, accessVars, outboundVars, callVars, gatewayVars, i18nVars>>

\* readRequestBody resolves with the raw body
BodyArrives(bodies) ==
    /\ h.pc = "readBody"
    /\ \E rawBody \in bodies :
          LET r == handlePostBody(h, runtimeState, rawBody, account, pairingStore)
          IN /\ h' = r.h
             /\ runtimeState' = r.rs
    /\ UNCHANGED <<account, pairingStore, accessVars, outboundVars, callVars, gatewayVars, i18nVars>>

\* readRequestBody rejects (the request stream errors)
BodyReadFails ==
    /\ h.pc = "readBody"
    /\ h' = handlerCatch(h)
    /\ UNCHANGED <<account, pairingStore, runtimeState, accessVars, outboundVars, callVars, gatewayVars, i18nVars>>

\* the pairing-instructions send settles; a rejection rejects handleMessage,
\* which the handler's .catch logs (lines 161-165)
PairingSendSettles ==
    /\ h.pc = "pairingSend"
    /\ \E ok \in BOOLEAN :
          h' = [h EXCEPT
                  !.pc = "done",
                  !.trace = IF ok THEN Append(h.trace, Settled(TRUE))
                            ELSE h.trace \o << Settled(FALSE),
                                               LogError("webhook message handler failed") >>]
    /\ UNCHANGED <<account, pairingStore, runtimeState, accessVars, outboundVars, callVars, gatewayVars, i18nVars>>

\* the host's reply pipeline calls deliver (lines 588-621), which runs to its
\* first send, or to its end when the reply holds nothing to send
HostDelivers(texts, mediaLists) ==
    /\ h.pc = "dispatching"
    /\ h.delivers < MaxDelivers
    /\ \E text \in texts, mediaUrls \in mediaLists :
          LET ctx == h.trace[Len(h.trace)].ctx
              sends == deliverSends([text |-> text, mediaUrls |-> mediaUrls],
                                    normalizeWahaTarget(ctx.From))
              tr1 == Append(h.trace, [ev |-> "deliver", ctx |-> ctx])
          IN IF sends = <<>>
             THEN /\ h' = [h EXCEPT !.trace = Append(tr1, [ev |-> "delivered", ctx |-> ctx]),
                                    !.delivers = h.delivers + 1]
                  /\ runtimeState' = recordChannelRuntimeState(
                                         runtimeState, [lastOutboundAt |-> "now"])
             ELSE /\ h' = [h EXCEPT !.pc = "deliverSend",
                                    !.trace = Append(tr1, Head(sends)),
                                    !.todo = Tail(sends),
                                    !.delivers = h.delivers + 1]
                  /\ UNCHANGED runtimeState
    /\ UNCHANGED <<account, pairingStore, accessVars, outboundVars, callVars, gatewayVars, i18nVars>>

\* the send in flight of a deliver call settles: the next send is issued, or
\* deliver ends, or deliver rejects into the host's pipeline
DeliverSendSettles ==
    /\ h.pc = "deliverSend"
    /\ LET ctx == (CHOOSE e \in { h.trace[i] : i \in 1..Len(h.trace) } :
                       e.ev = "dispatchReply").ctx
       IN \E ok \in BOOLEAN :
          IF ~ok
          THEN /\ h' = [h EXCEPT !.pc = "dispatching", !.todo = <<>>,
                          !.trace = h.trace \o << Settled(FALSE),
                                                  [ev |-> "deliverFailed", ctx |-> ctx] >>]
               /\ UNCHANGED runtimeState
          ELSE IF h.todo # <<>>
          THEN /\ h' = [h EXCEPT !.todo = Tail(h.todo),
                          !.trace = h.trace \o << Settled(TRUE), Head(h.todo) >>]
               /\ UNCHANGED runtimeState
          ELSE /\ h' = [h EXCEPT !.pc = "dispatching",
                          !.trace = h.trace \o << Settled(TRUE),
                                                  [ev |-> "delivered", ctx |-> ctx] >>]
               /\ runtimeState' = recordChannelRuntimeState(
                                      runtimeState, [lastOutboundAt |-> "now"])
    /\ UNCHANGED <<account, pairingStore, accessVars, outboundVars, callVars, gatewayVars, i18nVars>>

\* the host's reply pipeline resolves: handleMessage returns
HostResolves ==
    /\ h.pc = "dispatching"
    /\ h' = [h EXCEPT !.pc = "done", !.trace = Append(h.trace, Ev("dispatchResolved"))]
    /\ UNCHANGED <<account, pairingStore, runtimeState, accessVars, outboundVars, callVars, gatewayVars, i18nVars>>

\* the host's reply pipeline rejects: the catch logs and sends the apology
\* (lines 627-639)
HostRejects ==
    /\ h.pc = "dispatching"
    /\ LET ctx == (CHOOSE e \in { h.trace[i] : i \in 1..Len(h.trace) } :
                       e.ev = "dispatchReply").ctx
       IN h' = [h EXCEPT !.pc = "fallbackSend",
                  !.trace = h.trace \o << Ev("dispatchRejected"),
                                          LogError("auto-reply failed"),
                                          SendText(normalizeWahaTarget(ctx.From),
                                                   ApologyText) >>]
    /\ UNCHANGED <<account, pairingStore, runtimeState, accessVars, outboundVars, callVars, gatewayVars, i18nVars>>

\* the apology send settles, its rejection leaving handleMessage as an exception
\* that the webhook handler's catch logs
FallbackSendSettles_Rethrows ==
    /\ h.pc = "fallbackSend"
    /\ \E ok \in BOOLEAN :
          h' = [h EXCEPT
                  !.pc = "done",
                  !.trace = IF ok THEN Append(h.trace, Settled(TRUE))
                            ELSE h.trace \o << Settled(FALSE),
                                               LogError("webhook message handler failed") >>]
    /\ UNCHANGED <<account, pairingStore, runtimeState, accessVars, outboundVars, callVars, gatewayVars, i18nVars>>

\* the apology send settles; its rejection is only logged
FallbackSendSettles ==
    /\ h.pc = "fallbackSend"
    /\ \E ok \in BOOLEAN :
          h' = [h EXCEPT
                  !.pc = "done",
                  !.trace = IF ok THEN Append(h.trace, Settled(TRUE))
                            ELSE h.trace \o << Settled(FALSE),
                                               LogError("error reply failed") >>]
    /\ UNCHANGED <<account, pairingStore, runtimeState, accessVars, outboundVars, callVars, gatewayVars, i18nVars>>

\* the handler's promise has resolved; the route serves the next request
Finish ==
    /\ h.pc = "done"
    /\ h' = IdleHandler
    /\ UNCHANGED <<account, pairingStore, runtimeState, accessVars, outboundVars, callVars, gatewayVars, i18nVars>>

\* the access-control variables while a specification does not use them
AccessUnused == acIn = NoInput /\ acOut = NoDecision

----------------------------------------------------------------------------
(* Spec: the webhook endpoint under every request shape *)

Methods == {"GET", "POST", "PUT", "HEAD"}

\* hex strings of one or two digits, and one that is longer than any digest
HexStrings ==
    { <<a>> : a \in {"0", "1"} } \cup { <<a, b>> : a, b \in {"0", "1"} }
    \cup { <<"0", "0", "0">> }

SigHdrs == { HdrUndefined, HdrString(<<>>), HdrArray } \cup { HdrString(x) : x \in HexStrings }

AlgHdrs == { HdrUndefined, HdrString("sha512"), HdrString("sha256"), HdrString("md0"),
             HdrArray }

DirectMessage(fromMe, n) ==
    [fromMe |-> fromMe, from |-> n \o <<"@c.us">>, participant |-> None]

GroupMessage(fromMe, g, n) ==
    [fromMe |-> fromMe, from |-> g, participant |-> Some(n \o <<"@c.us">>)]

ShapeBodies ==
    { GarbageBody, NullBody }
    \cup { Envelope(e, None) :
             e \in MessageEvents \cup {"message.reaction", "session.status", "message.ack"} }
    \cup { Envelope(e, Some(DirectMessage(fm, <<"1">>))) :
             e \in MessageEvents, fm \in BOOLEAN }
    \cup { Envelope("message.reaction", Some([from |-> <<"1", "@c.us">>])),
           Envelope("session.status", Some([status |-> "WORKING"])),
           Envelope("session.status", Some([status |-> "FAILED"])),
           Envelope("message.ack", Some([from |-> <<"1", "@c.us">>])) }

Account(hmacKey, config) ==
    [accountId |-> "default", session |-> "s", hmacKey |-> hmacKey, config |-> config]

Init ==
    /\ AccessUnused
    /\ OutboundUnused
    /\ CallUnused
    /\ GatewayUnused
    /\ I18nUnused
    /\ \E hmacKey \in { None, Some("k1") }, dp \in { "open", "pairing" } :
          account = Account(hmacKey, Config(dp, Undefined, None, None))
    /\ pairingStore = None
    /\ runtimeState = StartedRuntimeState
    /\ h = IdleHandler

Next ==
    \/ Receive(Methods, SigHdrs, AlgHdrs)
    \/ BodyArrives(ShapeBodies)
    \/ BodyReadFails
    \/ PairingSendSettles
    \/ HostDelivers(ReplyTexts, MediaLists)
    \/ DeliverSendSettles
    \/ HostResolves
    \/ HostRejects
    \/ FallbackSendSettles
    \/ Finish

Spec == Init /\ [][Next]_vars


----------------------------------------------------------------------------
(* SpecMonitor: message events under every policy configuration *)

MonitorPayloads ==
    { DirectMessage(fm, n) : fm \in BOOLEAN, n \in { <<"1">>, <<"2">> } }
    \cup { [fromMe |-> fm, from |-> <<"2", "@lid">>, participant |-> None] :
             fm \in BOOLEAN }
    \cup { GroupMessage(fm, <<"1", "@g.us">>, n) :
             fm \in BOOLEAN, n \in { <<"1">>, <<"2">> } }
    \cup { [fromMe |-> fm, from |-> <<"1", "@g.us">>, participant |-> None] :
             fm \in BOOLEAN }

MonitorBodies == { Envelope(e, Some(p)) : e \in MessageEvents, p \in MonitorPayloads }

\* the replies of the host explored here: nothing to send, one chunk, one image
MonitorReplyTexts == { Text(0, TRUE), Text(1, FALSE) }

MonitorMediaLists == { <<>>, << <<"u", 1>> >> }

MonitorInit ==
    /\ AccessUnused
    /\ OutboundUnused
    /\ CallUnused
    /\ GatewayUnused
    /\ I18nUnused
    /\ \E dp \in DmPolicies, gp \in GroupPolicies,
          af \in { None, Some(<< <<"+", "1">> >>) },
          gaf \in { None, Some(<< <<"1", "@c.us">> >>) } :
          account = Account(None, Config(dp, gp, af, gaf))
    /\ pairingStore \in { None, Some(<< <<"+", "2">> >>) }
    /\ runtimeState = StartedRuntimeState
    /\ h = IdleHandler

MonitorNext ==
    \/ Receive({"POST"}, {HdrUndefined}, {HdrUndefined})
    \/ BodyArrives(MonitorBodies)
    \/ BodyReadFails
    \/ PairingSendSettles
    \/ HostDelivers(MonitorReplyTexts, MonitorMediaLists)
    \/ DeliverSendSettles
    \/ HostResolves
    \/ HostRejects
    \/ FallbackSendSettles
    \/ Finish

SpecMonitor == MonitorInit /\ [][MonitorNext]_vars


----------------------------------------------------------------------------
(* accounts.ts *)

DEFAULT_ACCOUNT_ID == "default"

normalizeAccountId(accountId) ==
    IF accountId \in {Undefined, "", "default", DEFAULT_ACCOUNT_ID}
    THEN DEFAULT_ACCOUNT_ID
    ELSE accountId

\* a ?? b for values whose absence is Undefined
Coalesce(a, b) == IF a = Undefined THEN b ELSE a

\* a ?? b for optional values
CoalesceOpt(a, b) == IF a = None THEN b ELSE a

\* the channel section without any field set ({} as WahaConfig)
EmptyWahaConfig ==
    [name |-> Undefined, enabled |-> None, url |-> Undefined, apiKey |-> Undefined,
     session |-> Undefined, hmacKey |-> None, allowFrom |-> None,
     groupAllowFrom |-> None, dmPolicy |-> Undefined, groupPolicy |-> Undefined,
     webhookPath |-> Undefined, accounts |-> <<>>]

\* an entry of the accounts map without any field set; the map is the sequence
\* of its [id, entry] pairs in key order
EmptyAccountConfig ==
    [name |-> Undefined, enabled |-> None, session |-> Undefined, allowFrom |-> None,
     groupAllowFrom |-> None, dmPolicy |-> Undefined, groupPolicy |-> Undefined,
     webhookPath |-> Undefined]

\* wahaConfig.accounts?.[id]
AccountEntry(wahaConfig, id) ==
    { wahaConfig.accounts[i].entry :
        i \in { j \in 1..Len(wahaConfig.accounts) : wahaConfig.accounts[j].id = id } }

\* a value is truthy, for the strings the configurations hold
Truthy(str) == str \notin {Undefined, ""}

\* Object.keys(wahaConfig.accounts)
AccountKeys(wahaConfig) == [i \in 1..Len(wahaConfig.accounts) |-> wahaConfig.accounts[i].id]

\* s.includes(x)
Includes(s, x) == \E i \in 1..Len(s) : s[i] = x

\* the push loop of listWahaAccountIds (lines 39-45) over keys[k..]
RECURSIVE PushMissing(_, _, _)
PushMissing(accountIds, keys, k) ==
    IF k > Len(keys) THEN accountIds
    ELSE PushMissing(IF Includes(accountIds, keys[k]) THEN accountIds
                     ELSE Append(accountIds, keys[k]),
                     keys, k + 1)

listWahaAccountIds(cfg) ==
    IF cfg = None THEN <<>>
    ELSE LET wahaConfig == OrElse(cfg, EmptyWahaConfig)
             accountIds == IF /\ Truthy(wahaConfig.url)
                              /\ Truthy(wahaConfig.apiKey)
                              /\ Truthy(wahaConfig.session)
                           THEN << DEFAULT_ACCOUNT_ID >>
                           ELSE <<>>
         IN PushMissing(accountIds, AccountKeys(wahaConfig), 1)

resolveDefaultWahaAccountId(cfg) ==
    IF cfg = None THEN DEFAULT_ACCOUNT_ID
    ELSE LET wahaConfig == OrElse(cfg, EmptyWahaConfig)
             keys == AccountKeys(wahaConfig)
         IN IF /\ Truthy(wahaConfig.url)
               /\ Truthy(wahaConfig.apiKey)
               /\ Truthy(wahaConfig.session)
            THEN DEFAULT_ACCOUNT_ID
            ELSE IF keys # <<>> /\ Truthy(keys[1]) THEN keys[1]
            ELSE DEFAULT_ACCOUNT_ID

\* resolveWahaAccount taking the four policy fields from the named entry as a
\* group as soon as the entry sets one of them
resolveWahaAccount_GroupOverride(cfg, accountId) ==
    LET normalizedId == normalizeAccountId(accountId)
        wahaConfig == OrElse(cfg, EmptyWahaConfig)
        found == AccountEntry(wahaConfig, normalizedId)
        accountConfig == OrElse(found, EmptyAccountConfig)
        own == \/ accountConfig.allowFrom # None
               \/ accountConfig.groupAllowFrom # None
               \/ accountConfig.dmPolicy # Undefined
               \/ accountConfig.groupPolicy # Undefined
        src == IF own THEN accountConfig ELSE wahaConfig
    IN IF normalizedId # DEFAULT_ACCOUNT_ID /\ found # None
       THEN [accountId |-> normalizedId,
             name |-> Coalesce(accountConfig.name, normalizedId),
             enabled |-> OrElse(accountConfig.enabled, TRUE),
             url |-> Coalesce(wahaConfig.url, ""),
             apiKey |-> Coalesce(wahaConfig.apiKey, ""),
             session |-> accountConfig.session,
             hmacKey |-> wahaConfig.hmacKey,
             config |-> [allowFrom |-> src.allowFrom,
                         groupAllowFrom |-> src.groupAllowFrom,
                         dmPolicy |-> src.dmPolicy,
                         groupPolicy |-> src.groupPolicy]]
       ELSE [accountId |-> DEFAULT_ACCOUNT_ID,
             name |-> wahaConfig.name,
             enabled |-> OrElse(wahaConfig.enabled, TRUE),
             url |-> Coalesce(wahaConfig.url, ""),
             apiKey |-> Coalesce(wahaConfig.apiKey, ""),
             session |-> Coalesce(wahaConfig.session, "default"),
             hmacKey |-> wahaConfig.hmacKey,
             config |-> [allowFrom |-> wahaConfig.allowFrom,
                         groupAllowFrom |-> wahaConfig.groupAllowFrom,
                         dmPolicy |-> wahaConfig.dmPolicy,
                         groupPolicy |-> wahaConfig.groupPolicy]]

\* cfg is cfg.channels?.waha: None or Some(wahaConfig)
resolveWahaAccount(cfg, accountId) ==
    LET normalizedId == normalizeAccountId(accountId)
        wahaConfig == OrElse(cfg, EmptyWahaConfig)
        found == AccountEntry(wahaConfig, normalizedId)
        accountConfig == OrElse(found, EmptyAccountConfig)
    IN IF normalizedId # DEFAULT_ACCOUNT_ID /\ found # None
       THEN [accountId |-> normalizedId,
             name |-> Coalesce(accountConfig.name, normalizedId),
             enabled |-> OrElse(accountConfig.enabled, TRUE),
             url |-> Coalesce(wahaConfig.url, ""),
             apiKey |-> Coalesce(wahaConfig.apiKey, ""),
             session |-> accountConfig.session,
             hmacKey |-> wahaConfig.hmacKey,
             config |-> [allowFrom |-> CoalesceOpt(accountConfig.allowFrom,
                                                   wahaConfig.allowFrom),
                         groupAllowFrom |-> CoalesceOpt(accountConfig.groupAllowFrom,
                                                        wahaConfig.groupAllowFrom),
                         dmPolicy |-> Coalesce(accountConfig.dmPolicy, wahaConfig.dmPolicy),
                         groupPolicy |-> Coalesce(accountConfig.groupPolicy,
                                                  wahaConfig.groupPolicy)]]
       ELSE [accountId |-> DEFAULT_ACCOUNT_ID,
             name |-> wahaConfig.name,
             enabled |-> OrElse(wahaConfig.enabled, TRUE),
             url |-> Coalesce(wahaConfig.url, ""),
             apiKey |-> Coalesce(wahaConfig.apiKey, ""),
             session |-> Coalesce(wahaConfig.session, "default"),
             hmacKey |-> wahaConfig.hmacKey,
             config |-> [allowFrom |-> wahaConfig.allowFrom,
                         groupAllowFrom |-> wahaConfig.groupAllowFrom,
                         dmPolicy |-> wahaConfig.dmPolicy,
                         groupPolicy |-> wahaConfig.groupPolicy]]

\* s?.trim() is truthy, for the strings the configurations hold
TrimmedTruthy(str) == str \notin {Undefined, "", " "}

isWahaAccountConfigured(acct) ==
    TrimmedTruthy(acct.url) /\ TrimmedTruthy(acct.apiKey) /\ TrimmedTruthy(acct.session)

----------------------------------------------------------------------------
(* channel.ts: the config and setup adapters. Of the configuration only the
   channel section cfg.channels?.waha is modelled; the spreads of cfg and of
   cfg.channels copy everything else. *)

\* { ...accounts, [id]: entry }: an existing key keeps its place
PutEntry(accounts, id, entry) ==
    IF \E i \in 1..Len(accounts) : accounts[i].id = id
    THEN [i \in 1..Len(accounts) |->
            IF accounts[i].id = id THEN [id |-> id, entry |-> entry] ELSE accounts[i]]
    ELSE Append(accounts, [id |-> id, entry |-> entry])

setAccountEnabled(cfg, accountId, enabled) ==
    LET wahaConfig == OrElse(cfg, EmptyWahaConfig)
        existing == OrElse(AccountEntry(wahaConfig, accountId), EmptyAccountConfig)
    IN IF accountId = DEFAULT_ACCOUNT_ID
       THEN Some([wahaConfig EXCEPT !.enabled = Some(enabled)])
       ELSE Some([wahaConfig EXCEPT
                    !.accounts = PutEntry(@, accountId,
                                          [existing EXCEPT !.enabled = Some(enabled)])])

\* an accounts map left empty becomes undefined, which reads like the empty map
deleteAccount(cfg, accountId) ==
    LET wahaConfig == OrElse(cfg, EmptyWahaConfig)
    IN IF accountId = DEFAULT_ACCOUNT_ID
       THEN Some([wahaConfig EXCEPT !.url = Undefined, !.apiKey = Undefined,
                                    !.session = Undefined, !.hmacKey = None])
       ELSE Some([wahaConfig EXCEPT
                    !.accounts = SelectSeq(@, LAMBDA a : a.id # accountId)])

\* the error message, or "null" for an accepted input
validateInput(input) ==
    LET url == Coalesce(input.url, input.httpUrl)
        apiKey == input.token
    IN IF ~Truthy(url) THEN "WAHA requires a URL (--url or channels.waha.url)."
       ELSE IF ~Truthy(apiKey)
       THEN "WAHA requires an API key (--token or channels.waha.apiKey)."
       ELSE "null"

applyAccountConfig(cfg, accountId, input) ==
    LET wahaConfig == OrElse(cfg, EmptyWahaConfig)
        url == Coalesce(input.url, input.httpUrl)
        apiKey == input.token
        existing == OrElse(AccountEntry(wahaConfig, accountId), EmptyAccountConfig)
        IfSet(new, old) == IF Truthy(new) THEN new ELSE old
    IN IF accountId = DEFAULT_ACCOUNT_ID
       THEN Some([wahaConfig EXCEPT
                    !.enabled = Some(TRUE),
                    !.name = IfSet(input.name, @),
                    !.url = IfSet(url, @),
                    !.apiKey = IfSet(apiKey, @),
                    !.webhookPath = IfSet(input.webhookPath, @)])
       ELSE Some([wahaConfig EXCEPT
                    !.enabled = Some(TRUE),
                    !.url = IfSet(url, @),
                    !.apiKey = IfSet(apiKey, @),
                    !.accounts =
                        PutEntry(@, accountId,
                                 [existing EXCEPT
                                    !.enabled = Some(TRUE),
                                    !.session = accountId,
                                    !.name = IfSet(input.name, @),
                                    !.webhookPath = IfSet(input.webhookPath, @)])])

----------------------------------------------------------------------------
(* channel.ts: outbound.sendPayload *)

\* the media URLs of a payload: mediaUrls ?? (mediaUrl ? [mediaUrl] : [])
payloadMediaUrls(payload) ==
    IF payload.mediaUrls # None THEN OrElse(payload.mediaUrls, <<>>)
    ELSE IF payload.mediaUrl # None THEN << OrElse(payload.mediaUrl, "") >>
    ELSE <<>>

\* sendPayloadSends with the media sent before the text
sendPayloadSends_MediaFirst(payload, chatId) ==
    LET chunks == IF HasContent(payload.text)
                  THEN chunkMarkdownText(payload.text, TextChunkLimit)
                  ELSE <<>>
        mediaUrls == payloadMediaUrls(payload)
    IN [j \in 1..Len(mediaUrls) |-> SendImage(chatId, mediaUrls[j])] \o
       [i \in 1..Len(chunks) |-> SendText(chatId, chunks[i])] \o
       (IF payload.location # None
        THEN << SendLocation(chatId, OrElse(payload.location, <<>>)) >>
        ELSE <<>>)

\* the client calls of one sendPayload in program order (lines 344-377)
sendPayloadSends(payload, chatId) ==
    LET chunks == IF HasContent(payload.text)
                  THEN chunkMarkdownText(payload.text, TextChunkLimit)
                  ELSE <<>>
        mediaUrls == payloadMediaUrls(payload)
    IN [i \in 1..Len(chunks) |-> SendText(chatId, chunks[i])] \o
       [j \in 1..Len(mediaUrls) |-> SendImage(chatId, mediaUrls[j])] \o
       (IF payload.location # None
        THEN << SendLocation(chatId, OrElse(payload.location, <<>>)) >>
        ELSE <<>>)

IdleDispatch ==
    [pc |-> "idle", to |-> <<>>, payload |-> [text |-> Text(0, TRUE)], chatId |-> <<>>,
     trace |-> <<>>, todo |-> <<>>, lastResult |-> None, result |-> None,
     error |-> None]

\* sendPayload from its call to its first await (lines 331-349)
sendPayloadCall(to, payload, accountId, cfg) ==
    LET acct == resolveWahaAccount(cfg, accountId)
        chatId == normalizeWahaTarget(to)
        sends == sendPayloadSends(payload, chatId)
        o == [IdleDispatch EXCEPT !.to = to, !.payload = payload]
    IN IF ~isWahaAccountConfigured(acct)
       THEN [o EXCEPT !.pc = "threw", !.error = Some("WAHA not configured")]
       ELSE IF sends = <<>>
       THEN [o EXCEPT !.pc = "returned", !.chatId = chatId,
                      !.result = Some([channel |-> "waha", messageId |-> "sent",
                                       chatId |-> chatId])]
       ELSE [o EXCEPT !.pc = "sending", !.chatId = chatId,
                      !.trace = << Head(sends) >>,
                      !.todo = Tail(sends)]

\* sendPayloadResume going on with the next fragment after a failed call
sendPayloadResume_ContinuesOnFailure(o, ok, id) ==
    LET tr1 == Append(o.trace, Settled(ok))
        last == IF ok THEN Some(id) ELSE o.lastResult
    IN IF o.todo # <<>>
       THEN [o EXCEPT !.trace = Append(tr1, Head(o.todo)), !.todo = Tail(o.todo),
                      !.lastResult = last]
       ELSE [o EXCEPT !.pc = "returned", !.trace = tr1, !.lastResult = last,
                      !.result = Some([channel |-> "waha",
                                       messageId |-> OrElse(last, "sent"),
                                       chatId |-> o.chatId])]

\* sendPayload from the settling of the awaited client call to its next await:
\* a rejection leaves the function, a result id becomes lastResult
sendPayloadResume(o, ok, id) ==
    LET tr1 == Append(o.trace, Settled(ok))
    IN IF ~ok
       THEN [o EXCEPT !.pc = "threw", !.trace = tr1, !.todo = <<>>,
                      !.error = Some("WAHA API error")]
       ELSE IF o.todo # <<>>
       THEN [o EXCEPT !.trace = Append(tr1, Head(o.todo)), !.todo = Tail(o.todo),
                      !.lastResult = Some(id)]
       ELSE [o EXCEPT !.pc = "returned", !.trace = tr1, !.lastResult = Some(id),
                      !.result = Some([channel |-> "waha", messageId |-> id,
                                       chatId |-> o.chatId])]

----------------------------------------------------------------------------
(* SpecOutbound: one sendPayload dispatch at a time *)

WahaConfig(url, apiKey, session, accounts) ==
    [EmptyWahaConfig EXCEPT !.url = url, !.apiKey = apiKey, !.session = session,
                            !.accounts = accounts]

WorkAccounts == << [id |-> "work", entry |-> [EmptyAccountConfig EXCEPT !.session = "w"]] >>

\* configurations and account ids of the explored dispatches
OutboundCalls ==
    { [cfg |-> Some(WahaConfig("http://waha", "key", "s", <<>>)), accountId |-> Undefined],
      [cfg |-> Some(WahaConfig("http://waha", " ", "s", <<>>)), accountId |-> Undefined],
      [cfg |-> Some(WahaConfig("http://waha", "key", Undefined, WorkAccounts)),
       accountId |-> "work"],
      [cfg |-> None, accountId |-> Undefined] }

OutboundTargets ==
    { <<"+", "1">>, <<"2">>, <<"waha:", "user:", "1", "@c.us">>, <<"1", "@g.us">> }

\* the longest mediaUrls list of an explored payload
MaxMediaUrls == 2

OutboundMediaLists == { [i \in 1..m |-> <<"u", i>>] : m \in 0..MaxMediaUrls }

OutboundPayloads ==
    { [text |-> t, mediaUrls |-> m, mediaUrl |-> u, location |-> l] :
        t \in ReplyTexts,
        m \in { None } \cup { Some(x) : x \in OutboundMediaLists },
        u \in { None, Some(<<"u", 0>>) },
        l \in { None, Some([latitude |-> 1, longitude |-> 2]) } }

OutboundInit ==
    /\ AccessUnused
    /\ WebhookUnused
    /\ CallUnused
    /\ GatewayUnused
    /\ I18nUnused
    /\ op = IdleDispatch

\* the host calls outbound.sendPayload
SendPayloadCalled ==
    /\ op.pc = "idle"
    /\ \E c \in OutboundCalls, to \in OutboundTargets, payload \in OutboundPayloads :
          op' = sendPayloadCall(to, payload, c.accountId, c.cfg)
    /\ UNCHANGED <<accessVars, webhookVars, callVars, gatewayVars, i18nVars>>

\* the client call in flight resolves with the id of the message it sent, or
\* rejects (a non-2xx answer, a network error, the request timeout)
SendSettles ==
    /\ op.pc = "sending"
    /\ \E ok \in BOOLEAN :
          op' = sendPayloadResume(op, ok, <<"id", Len(op.trace)>>)
    /\ UNCHANGED <<accessVars, webhookVars, callVars, gatewayVars, i18nVars>>

\* the dispatch is over; the next one may be called
DispatchOver ==
    /\ op.pc \in {"returned", "threw"}
    /\ op' = IdleDispatch
    /\ UNCHANGED <<accessVars, webhookVars, callVars, gatewayVars, i18nVars>>

OutboundNext == SendPayloadCalled \/ SendSettles \/ DispatchOver

SpecOutbound == OutboundInit /\ [][OutboundNext]_vars


----------------------------------------------------------------------------
(* SpecNormalize: the target conversions of normalize.ts applied to strings *)

\* the longest target string explored, in tokens
MaxTargetLen == 3

TargetTok == {"1", "2", "+", " ", "x", "waha:", "user:", "@c.us", "@g.us"}

RECURSIVE StringsUpTo(_, _)
StringsUpTo(toks, n) ==
    IF n = 0 THEN { <<>> }
    ELSE LET shorter == StringsUpTo(toks, n - 1)
         IN shorter \cup { Append(s, t) : s \in { x \in shorter : Len(x) = n - 1 },
                                          t \in toks }

TargetStrings == StringsUpTo(TargetTok, MaxTargetLen)

NoCall == [pc |-> "idle"]

\* the plugin's messaging.normalizeTarget (channel.ts): None for undefined
normalizeTarget(target) ==
    LET trimmed == Trim(target)
        stripped == StripWahaPrefix(trimmed)
    IN IF trimmed = <<>> THEN None
       ELSE IF \/ EndsWith(stripped, "@c.us")
               \/ EndsWith(stripped, "@g.us")
               \/ EndsWith(stripped, "@newsletter")
       THEN Some(stripped)
       ELSE IF StartsWith(stripped, "+") THEN Some(Tail(stripped))
       ELSE Some(stripped)

NormalizeInit ==
    /\ AccessUnused
    /\ WebhookUnused
    /\ OutboundUnused
    /\ GatewayUnused
    /\ I18nUnused
    /\ call = NoCall

\* normalizeWahaTarget(x)
NormalizeTarget ==
    /\ call.pc = "idle"
    /\ \E x \in TargetStrings :
          call' = [pc |-> "normalized", input |-> x, once |-> normalizeWahaTarget(x)]
    /\ UNCHANGED <<accessVars, webhookVars, outboundVars, gatewayVars, i18nVars>>

\* normalizeWahaTarget applied to its own result
NormalizeAgain ==
    /\ call.pc = "normalized"
    /\ call' = [pc |-> "renormalized", input |-> call.input, once |-> call.once,
                twice |-> normalizeWahaTarget(call.once)]
    /\ UNCHANGED <<accessVars, webhookVars, outboundVars, gatewayVars, i18nVars>>

\* chatIdToE164 applied to the result of normalizeWahaTarget
ConvertToE164 ==
    /\ call.pc = "normalized"
    /\ call' = [pc |-> "converted", input |-> call.input, once |-> call.once,
                e164 |-> chatIdToE164(call.once)]
    /\ UNCHANGED <<accessVars, webhookVars, outboundVars, gatewayVars, i18nVars>>

\* the host pre-normalizes a target with messaging.normalizeTarget(x)
HostNormalizesTarget ==
    /\ call.pc = "idle"
    /\ \E x \in TargetStrings :
          call' = [pc |-> "hostNormalized", input |-> x, pre |-> normalizeTarget(x)]
    /\ UNCHANGED <<accessVars, webhookVars, outboundVars, gatewayVars, i18nVars>>

\* the send path resolves the pre-normalized target; direct is what it resolves
\* the raw target to
ResolvePreNormalized ==
    /\ call.pc = "hostNormalized"
    /\ call.pre # None
    /\ call' = [pc |-> "resolved", input |-> call.input, pre |-> call.pre,
                viaHost |-> normalizeWahaTarget(OrElse(call.pre, <<>>)),
                direct |-> normalizeWahaTarget(call.input)]
    /\ UNCHANGED <<accessVars, webhookVars, outboundVars, gatewayVars, i18nVars>>

CallOver ==
    /\ call.pc \in {"renormalized", "converted", "hostNormalized", "resolved"}
    /\ call' = NoCall
    /\ UNCHANGED <<accessVars, webhookVars, outboundVars, gatewayVars, i18nVars>>

NormalizeNext ==
    \/ NormalizeTarget
    \/ NormalizeAgain
    \/ ConvertToE164
    \/ HostNormalizesTarget
    \/ ResolvePreNormalized
    \/ CallOver

SpecNormalize == NormalizeInit /\ [][NormalizeNext]_vars


----------------------------------------------------------------------------
(* SpecLifecycle: gateway.startAccount, monitorWahaProvider and its stop *)

\* the accounts the gateway starts
LifecycleAccounts == {DEFAULT_ACCOUNT_ID, "work"}

\* paths are sequences of the tokens "/", " " and path segments
DefaultWebhookPath == <<"/", "waha", "/", "webhook">>

\* account.config.webhookPath: unset, absolute, relative, blank
WebhookPaths == { None, Some(<<"/", "hook">>), Some(<<"hook">>), Some(<<" ">>) }

\* the host's normalizePluginHttpPath(path, fallback): the trimmed path, or the
\* trimmed fallback when it is empty, with a leading slash; None when both are
\* empty
normalizePluginHttpPath(path, fallback) ==
    LET trimmed == Trim(path)
        fallbackTrimmed == Trim(fallback)
        slashed(p) == IF StartsWith(p, "/") THEN p ELSE <<"/">> \o p
    IN IF trimmed # <<>> THEN Some(slashed(trimmed))
       ELSE IF fallbackTrimmed # <<>> THEN Some(slashed(fallbackTrimmed))
       ELSE None

\* registerWahaWebhookHandler, lines 95-98: the path of the route
webhookRoutePath(webhookPath, accountId) ==
    LET basePath == OrElse(webhookPath, DefaultWebhookPath)
    IN OrElse(normalizePluginHttpPath(basePath, DefaultWebhookPath),
              DefaultWebhookPath \o <<"/", accountId>>)

\* the host's registerPluginHttpRoute: the registry holds one entry for each
\* registration, removed by the function it returns
registerPluginHttpRoute(routes, path, accountId) ==
    routes \cup { [path |-> path, accountId |-> accountId] }

unregisterPluginHttpRoute(routes, path, accountId) ==
    routes \ { [path |-> path, accountId |-> accountId] }

\* the entry recordChannelRuntimeState starts from when the map has none
AbsentRuntimeState ==
    [running |-> FALSE, lastStartAt |-> "null", lastStopAt |-> "null",
     lastError |-> "null", lastInboundAt |-> Undefined, lastOutboundAt |-> Undefined]

\* monitorWahaProvider (lines 498-689): it has no await, so it runs from its
\* call to its return; the listener it adds hears only a later abort
\* a is the monitor, g.accountOf[a] the account it serves: the runtime state
\* and the route are keyed by the account
monitorWahaProvider(g, a) ==
    [g EXCEPT !.pc[a] = "monitoring",
              !.state[g.accountOf[a]] =
                  recordChannelRuntimeState(
                      @, [running |-> TRUE, lastStartAt |-> "now"]),
              !.routes = registerPluginHttpRoute(
                             @, webhookRoutePath(g.webhookPath[a], g.accountOf[a]),
                             g.accountOf[a]),
              !.listening[a] = TRUE]

\* stopHandler (lines 666-677); unregistered counts the calls of the monitor's
\* unregisterWebhook
stopHandler(g, a) ==
    [g EXCEPT !.routes = unregisterPluginHttpRoute(
                             @, webhookRoutePath(g.webhookPath[a], g.accountOf[a]),
                             g.accountOf[a]),
              !.unregistered[a] = @ + 1,
              !.state[g.accountOf[a]] =
                  recordChannelRuntimeState(
                      @, [running |-> FALSE, lastStopAt |-> "now"])]

LifecycleInit ==
    /\ AccessUnused
    /\ WebhookUnused
    /\ OutboundUnused
    /\ CallUnused
    /\ I18nUnused
    /\ gw = [pc |-> [a \in LifecycleAccounts |-> "idle"],
             aborted |-> [a \in LifecycleAccounts |-> FALSE],
             listening |-> [a \in LifecycleAccounts |-> FALSE],
             webhookPath |-> [a \in LifecycleAccounts |-> None],
             accountOf |-> [a \in LifecycleAccounts |-> a],
             unregistered |-> [a \in LifecycleAccounts |-> 0],
             routes |-> {},
             state |-> [a \in LifecycleAccounts |-> AbsentRuntimeState]]

LifecycleUnchanged ==
    UNCHANGED <<accessVars, webhookVars, outboundVars, callVars, i18nVars>>

\* the gateway calls startAccount with a fresh abort signal; startAccount runs
\* to its await of client.getSession
StartAccount(a) ==
    /\ gw.pc[a] \in {"idle", "stopped"}
    /\ \E wp \in WebhookPaths :
          gw' = [gw EXCEPT !.pc[a] = "probeSession", !.aborted[a] = FALSE,
                           !.unregistered[a] = 0, !.webhookPath[a] = wp]
    /\ LifecycleUnchanged

\* getSession settles: a WORKING session leads to the await of getMe, any other
\* status and a rejection (caught, lines 569-573) to monitorWahaProvider
SessionProbeSettles(a) ==
    /\ gw.pc[a] = "probeSession"
    /\ \E working \in BOOLEAN :
          gw' = IF working THEN [gw EXCEPT !.pc[a] = "probeMe"]
                ELSE monitorWahaProvider(gw, a)
    /\ LifecycleUnchanged

\* getMe settles either way; startAccount goes on to monitorWahaProvider
GetMeSettles(a) ==
    /\ gw.pc[a] = "probeMe"
    /\ gw' = monitorWahaProvider(gw, a)
    /\ LifecycleUnchanged

\* the abort signal of the account fires: its listeners run
AbortFires(a) ==
    /\ gw.pc[a] \in {"probeSession", "probeMe", "monitoring"}
    /\ ~gw.aborted[a]
    /\ gw' = LET g == [gw EXCEPT !.aborted[a] = TRUE]
             IN IF gw.listening[a] THEN stopHandler(g, a) ELSE g
    /\ LifecycleUnchanged

\* the holder of the monitor calls its stop (lines 685-688)
MonitorStop(a) ==
    /\ gw.pc[a] = "monitoring"
    /\ gw' = [stopHandler(gw, a) EXCEPT !.pc[a] = "stopped", !.listening[a] = FALSE]
    /\ LifecycleUnchanged

LifecycleNext ==
    \E a \in LifecycleAccounts :
        \/ StartAccount(a)
        \/ SessionProbeSettles(a)
        \/ GetMeSettles(a)
        \/ AbortFires(a)
        \/ MonitorStop(a)

SpecLifecycle == LifecycleInit /\ [][LifecycleNext]_vars

----------------------------------------------------------------------------
(* SpecRestart: several monitors of one account, started and stopped in every
   order *)

\* the monitors: a restart starts one while the other may still be running
RestartMonitors == {"m1", "m2"}

RestartInit ==
    /\ AccessUnused
    /\ WebhookUnused
    /\ OutboundUnused
    /\ CallUnused
    /\ I18nUnused
    /\ gw = [pc |-> [m \in RestartMonitors |-> "idle"],
             aborted |-> [m \in RestartMonitors |-> FALSE],
             listening |-> [m \in RestartMonitors |-> FALSE],
             webhookPath |-> [m \in RestartMonitors |-> None],
             accountOf |-> [m \in RestartMonitors |-> DEFAULT_ACCOUNT_ID],
             unregistered |-> [m \in RestartMonitors |-> 0],
             routes |-> {},
             state |-> [a \in {DEFAULT_ACCOUNT_ID} |-> AbsentRuntimeState]]

RestartNext ==
    \E m \in RestartMonitors :
        \/ StartAccount(m)
        \/ SessionProbeSettles(m)
        \/ GetMeSettles(m)
        \/ AbortFires(m)
        \/ MonitorStop(m)

SpecRestart == RestartInit /\ [][RestartNext]_vars


----------------------------------------------------------------------------
(* SpecAccounts: the account functions of accounts.ts applied to configurations *)

\* the largest named-accounts map explored
MaxAccounts == 2

\* the keys of the named-accounts maps, the default id and the empty key included
AccountKeyNames == {"work", "home", DEFAULT_ACCOUNT_ID, ""}

\* entries of the map: one that sets the session only, one that sets half of
\* the policy fields, one that sets the other half and no session
AccountEntries ==
    { [EmptyAccountConfig EXCEPT !.session = "w"],
      [EmptyAccountConfig EXCEPT !.session = "w2", !.dmPolicy = "open",
                                 !.groupAllowFrom = Some(<< <<"2", "@c.us">> >>)],
      [EmptyAccountConfig EXCEPT !.allowFrom = Some(<< <<"+", "2">> >>),
                                 !.groupPolicy = "disabled"] }

RECURSIVE AccountMaps(_)
AccountMaps(n) ==
    IF n = 0 THEN { <<>> }
    ELSE LET shorter == AccountMaps(n - 1)
         IN shorter \cup
            { Append(m, [id |-> k, entry |-> e]) :
                m \in { x \in shorter : Len(x) = n - 1 },
                k \in AccountKeyNames, e \in AccountEntries }

\* Object maps hold each key once
DistinctKeys(m) == \A i, j \in 1..Len(m) : i # j => m[i].id # m[j].id

\* the channel sections explored, and the configuration without the section
AccountCfgs ==
    { None } \cup
    { Some([EmptyWahaConfig EXCEPT
              !.url = u, !.apiKey = k, !.session = ss, !.accounts = m,
              !.dmPolicy = IF policies THEN "pairing" ELSE Undefined,
              !.groupPolicy = IF policies THEN "open" ELSE Undefined,
              !.allowFrom = IF policies THEN Some(<< <<"+", "1">> >>) ELSE None,
              !.groupAllowFrom = IF policies THEN Some(<< <<"1", "@c.us">> >>)
                                 ELSE None]) :
        u \in {Undefined, "", "http://waha"}, k \in {Undefined, "key"},
        ss \in {Undefined, "s"}, policies \in BOOLEAN,
        m \in { x \in AccountMaps(MaxAccounts) : DistinctKeys(x) } }

AccountIdArgs == {Undefined, "", DEFAULT_ACCOUNT_ID, "work", "home"}

AccountsInit ==
    /\ AccessUnused
    /\ WebhookUnused
    /\ OutboundUnused
    /\ GatewayUnused
    /\ I18nUnused
    /\ call = NoCall

\* resolveWahaAccount({ cfg, accountId })
ResolveAccount ==
    /\ call.pc = "idle"
    /\ \E cfg \in AccountCfgs, accountId \in AccountIdArgs :
          call' = [pc |-> "resolved", cfg |-> cfg, accountId |-> accountId,
                   result |-> resolveWahaAccount(cfg, accountId)]
    /\ UNCHANGED <<accessVars, webhookVars, outboundVars, gatewayVars, i18nVars>>

\* listWahaAccountIds(cfg)
ListAccountIds ==
    /\ call.pc = "idle"
    /\ \E cfg \in AccountCfgs :
          call' = [pc |-> "listed", cfg |-> cfg, ids |-> listWahaAccountIds(cfg)]
    /\ UNCHANGED <<accessVars, webhookVars, outboundVars, gatewayVars, i18nVars>>

\* resolveDefaultWahaAccountId(cfg) for the configuration just listed
ResolveDefaultId ==
    /\ call.pc = "listed"
    /\ call' = [pc |-> "defaultResolved", cfg |-> call.cfg, ids |-> call.ids,
                defaultId |-> resolveDefaultWahaAccountId(call.cfg)]
    /\ UNCHANGED <<accessVars, webhookVars, outboundVars, gatewayVars, i18nVars>>

\* the configurations, account ids and inputs the setup and config adapters
\* are applied to
SetupCfgs ==
    { c \in AccountCfgs :
        \/ c = None
        \/ LET w == OrElse(c, EmptyWahaConfig)
           IN w.url # "" /\ w.dmPolicy = Undefined }

SetupAccountIds == {DEFAULT_ACCOUNT_ID, "work", "home"}

SetupInput(name, url, httpUrl, token) ==
    [name |-> name, url |-> url, httpUrl |-> httpUrl, token |-> token,
     webhookPath |-> Undefined]

SetupInputs ==
    { SetupInput(Undefined, "http://new", Undefined, "key2"),
      SetupInput("n", Undefined, "http://alt", "key2"),
      SetupInput(Undefined, " ", Undefined, "key2"),
      SetupInput(Undefined, Undefined, Undefined, "key2"),
      SetupInput(Undefined, "http://new", Undefined, Undefined) }

\* setup.applyAccountConfig({ cfg, accountId, input })
ApplyAccountConfig ==
    /\ call.pc = "idle"
    /\ \E cfg \in SetupCfgs, accountId \in SetupAccountIds, input \in SetupInputs :
          call' = [pc |-> "applied", cfg |-> cfg, accountId |-> accountId,
                   input |-> input, valid |-> validateInput(input),
                   result |-> applyAccountConfig(cfg, accountId, input)]
    /\ UNCHANGED <<accessVars, webhookVars, outboundVars, gatewayVars, i18nVars>>

\* config.setAccountEnabled({ cfg, accountId, enabled })
SetAccountEnabled ==
    /\ call.pc = "idle"
    /\ \E cfg \in SetupCfgs, accountId \in SetupAccountIds, enabled \in BOOLEAN :
          call' = [pc |-> "enabledSet", cfg |-> cfg, accountId |-> accountId,
                   enabled |-> enabled,
                   result |-> setAccountEnabled(cfg, accountId, enabled)]
    /\ UNCHANGED <<accessVars, webhookVars, outboundVars, gatewayVars, i18nVars>>

\* config.deleteAccount({ cfg, accountId })
DeleteAccount ==
    /\ call.pc = "idle"
    /\ \E cfg \in SetupCfgs, accountId \in SetupAccountIds :
          call' = [pc |-> "deleted", cfg |-> cfg, accountId |-> accountId,
                   result |-> deleteAccount(cfg, accountId)]
    /\ UNCHANGED <<accessVars, webhookVars, outboundVars, gatewayVars, i18nVars>>

AccountCallOver ==
    /\ call.pc \in {"resolved", "listed", "defaultResolved", "applied", "enabledSet",
                    "deleted"}
    /\ call' = NoCall
    /\ UNCHANGED <<accessVars, webhookVars, outboundVars, gatewayVars, i18nVars>>

AccountsNext ==
    \/ ResolveAccount
    \/ ListAccountIds
    \/ ResolveDefaultId
    \/ ApplyAccountConfig
    \/ SetAccountEnabled
    \/ DeleteAccount
    \/ AccountCallOver

SpecAccounts == AccountsInit /\ [][AccountsNext]_vars


----------------------------------------------------------------------------
(* Claims about the access-control evaluation (SpecAccess) *)

\* the evaluated message is a direct message
DirectEvaluated == acOut.evaluated /\ ~acOut.ctx.isGroup

\* the evaluated message is a group message
GroupEvaluated == acOut.evaluated /\ acOut.ctx.isGroup

\* the sender matches a list: some normalized entry is its id or its E.164 form
SenderMatches(list) ==
    \E i \in 1..Len(list) :
        normalizeWahaAllowEntry(list[i]) \in {acOut.ctx.SenderId, acOut.ctx.SenderE164}

CombinedAllowFrom == OrElse(acIn.config.allowFrom, <<>>) \o OrElse(acIn.store, <<>>)

\* C4: for a direct message the decision is the documented function of dmPolicy
\* and of whether the sender matches the combined allow-list: disabled rejects,
\* open accepts, allowlist and pairing accept a match, pairing (and an unset
\* policy) without a match rejects with reason "pairing required", allowlist
\* without a match rejects with another reason.
C4_DmPolicyTable ==
    DirectEvaluated =>
        LET dp == acIn.config.dmPolicy
            m == SenderMatches(CombinedAllowFrom)
            a == acOut.access
        IN /\ dp = "disabled" => ~a.allowed
           /\ dp = "open" => a = Allowed
           /\ (dp \in {"allowlist", "pairing", Undefined} /\ m) => a = Allowed
           /\ (dp \in {"pairing", Undefined} /\ ~m) => a = Rejected("pairing required")
           /\ (dp = "allowlist" /\ ~m) =>
                  /\ ~a.allowed
                  /\ a.reason \notin {"pairing required", Undefined}

\* a direct message under an unset dmPolicy from an unlisted sender was rejected
C4_Witness ==
    /\ DirectEvaluated
    /\ acIn.config.dmPolicy = Undefined
    /\ ~SenderMatches(CombinedAllowFrom)
    /\ acOut.access.reason = "pairing required"

\* C5: for a group message the decision depends only on groupPolicy and
\* groupAllowFrom: disabled rejects, allowlist (the default) accepts exactly the
\* senders found in the normalized groupAllowFrom by id or E.164 form, open
\* accepts; the reason is never "pairing required".
C5_GroupPolicyTable ==
    GroupEvaluated =>
        LET gp == acIn.config.groupPolicy
            m == SenderMatches(OrElse(acIn.config.groupAllowFrom, <<>>))
            a == acOut.access
        IN /\ gp = "disabled" => ~a.allowed
           /\ gp \in {"allowlist", Undefined} => (a.allowed <=> m)
           /\ gp = "open" => a.allowed
           /\ a.reason # "pairing required"

\* a group message was rejected under groupPolicy allowlist although the direct
\* allow-list and the pairing store both hold its sender
C5_Witness ==
    /\ GroupEvaluated
    /\ acIn.config.groupPolicy = "allowlist"
    /\ acIn.config.dmPolicy = "pairing"
    /\ SenderMatches(OrElse(acIn.config.allowFrom, <<>>))
    /\ acIn.payload.participant # None
    /\ SenderMatches(OrElse(acIn.store, <<>>))
    /\ ~acOut.access.allowed

\* the spellings of number n after the scheme prefix: +n, n, n@c.us
IsNumberForm(rest, n) ==
    \/ rest = <<"+">> \o n
    \/ rest = n
    \/ Len(rest) = Len(n) + 1 /\ SubSeq(rest, 1, Len(n)) = n
                              /\ rest[Len(rest)] \in DirectSuffixTok

\* entry spells number n: blanks around it aside, an optional waha: prefix
\* (either case) with an optional qualifier among quals, then a spelling of n
Spells(entry, n, quals) ==
    LET t == Trim(entry)
    IN \/ IsNumberForm(t, n)
       \/ /\ Len(t) >= 2
          /\ t[1] \in SchemeTok
          /\ \/ IsNumberForm(SubSeq(t, 2, Len(t)), n)
             \/ /\ t[2] \in quals
                /\ IsNumberForm(SubSeq(t, 3, Len(t)), n)

\* the evaluated direct message came from <digits>@c.us under dmPolicy allowlist
AllowlistDirect(n) ==
    /\ DirectEvaluated
    /\ acIn.config.dmPolicy = "allowlist"
    /\ acIn.payload.from = n \o <<"@c.us">>

SomeEntrySpells(n, quals) ==
    \E i \in 1..Len(CombinedAllowFrom) : Spells(CombinedAllowFrom[i], n, quals)

----------------------------------------------------------------------------
(* Claims about the webhook endpoint (Spec) and the message handler
   (SpecMonitor) *)

\* the events of the current invocation's trace with a name among names
TraceHas(names) == \E i \in 1..Len(h.trace) : h.trace[i].ev \in names

\* the responses written by the current invocation, in order
Responses == SelectSeq(h.trace, LAMBDA e : e.ev = "respond")

Ok200 == Respond(200, "application/json", "status: ok", "")

KeyConfigured == account.hmacKey # None

\* the raw body of the current POST has been read
BodyRead == h.pc # "idle" /\ h.method = "POST" /\ h.body # NoBody

\* the algorithm the request names (sha512 when it names none)
RequestedAlgorithm ==
    IF h.alg.kind = "undefined" THEN "sha512"
    ELSE IF h.alg.kind = "string" THEN h.alg.value
    ELSE "[object Array]"

\* the X-Webhook-Hmac header is present and equals the HMAC of the raw body
\* under the configured key
SignatureAuthentic ==
    /\ h.sig.kind = "string"
    /\ RequestedAlgorithm \in KnownAlgorithms
    /\ h.sig.value = HmacHexDigest(RequestedAlgorithm, OrElse(account.hmacKey, ""), h.body)

CallbackEvents == {"onMessage", "onReaction", "onSessionStatus"}

\* C1: with an HMAC key configured, a POST whose signature header is absent or
\* differs from the HMAC of its raw body never has its body JSON-parsed and
\* never invokes onMessage, onReaction or onSessionStatus.
C1_NoDispatchWithoutValidSignature ==
    (KeyConfigured /\ BodyRead /\ ~SignatureAuthentic) =>
        ~TraceHas(CallbackEvents \cup {"jsonParse"})

\* a POST carrying a message event and a well-formed signature of the wrong
\* value was answered without any dispatch
C1_Witness ==
    /\ KeyConfigured
    /\ BodyRead
    /\ h.pc = "done"
    /\ h.body.json = "object"
    /\ h.body.event = "message"
    /\ h.sig.kind = "string"
    /\ Len(h.sig.value) = 2
    /\ h.alg = HdrUndefined
    /\ ~SignatureAuthentic
    /\ Len(Responses) = 1

\* C2 as stated: with an HMAC key configured, every POST whose signature check
\* fails, for whatever reason, is answered 401 with a JSON error body.
C2_FailedSignatureAnswered401 ==
    (KeyConfigured /\ BodyRead /\ ~SignatureAuthentic /\ h.pc = "done") =>
        /\ Len(Responses) = 1
        /\ Responses[1].status = 401
        /\ Responses[1].contentType = "application/json"

\* the handler is suspended, or was, in the message handler
InMessageHandler == h.pc \in {"pairingSend", "dispatching", "deliverSend", "fallbackSend"}

\* C3: for an accepted POST the 200 {"status":"ok"} response directly follows
\* the parse and precedes the invocation of the message handler, so it stands
\* while the message handler's promise is pending.
C3_ResponseBeforeDispatch ==
    /\ \A i \in 1..Len(h.trace) :
          /\ h.trace[i].ev = "jsonParse" => (i < Len(h.trace) /\ h.trace[i + 1] = Ok200)
          /\ h.trace[i].ev = "onMessage" => \E j \in 1..(i - 1) : h.trace[j] = Ok200
    /\ InMessageHandler => Responses = <<Ok200>>

\* the message handler waits on the host's reply pipeline, which may never
\* settle, and the 200 response is complete
C3_Witness ==
    /\ h.pc = "dispatching"
    /\ TraceHas({"onMessage"})
    /\ Responses = <<Ok200>>

\* the access decisions recorded in the current invocation
PairingRequired ==
    \E i \in 1..Len(h.trace) :
        /\ h.trace[i].ev = "checkAccess"
        /\ h.trace[i].access = Rejected("pairing required")

CountOf(names) == Len(SelectSeq(h.trace, LAMBDA e : e.ev \in names))

\* the payload passed to onMessage in the current invocation
HandledPayload == (CHOOSE e \in { h.trace[i] : i \in 1..Len(h.trace) } :
                       e.ev = "onMessage").payload

\* C7: handling a direct message rejected with "pairing required" makes exactly
\* one upsertPairingRequest call, exactly one outbound call, a sendText of the
\* pairing instructions to the chat the message came from, and no call into the
\* reply-dispatch pipeline.
C7_PairingEscalation ==
    PairingRequired =>
        /\ CountOf({"upsertPairingRequest"}) = 1
        /\ SelectSeq(h.trace, LAMBDA e : e.ev \in SendEvents)
             = << SendText(HandledPayload.from, PairingText) >>
        /\ ~TraceHas({"dispatchReply", "deliver"})

\* a direct message of an unlisted sender was handled to the end under the
\* default (pairing) policy
C7_Witness ==
    /\ PairingRequired
    /\ h.pc = "done"
    /\ account.config.dmPolicy = Undefined
    /\ HandledPayload.participant = None
    /\ TraceHas({"settled"})

\* the current request is a message event sent by the bot's own account
SelfEcho ==
    /\ BodyRead
    /\ h.body.json = "object"
    /\ h.body.event \in MessageEvents
    /\ h.body.payload # None
    /\ OrElse(h.body.payload, <<>>).fromMe

\* C8: a message or message.any event with fromMe = true reaches neither the
\* message handler and its access-control evaluation, nor the pairing workflow,
\* the reply-dispatch pipeline or an outbound send, under every policy.
C8_SelfEchoSuppressed ==
    SelfEcho =>
        /\ h.pc = "done"
        /\ ~TraceHas({"onMessage", "checkAccess", "buildPairingReply",
                      "upsertPairingRequest", "dispatchReply", "deliver"} \cup SendEvents)

\* a self-echo was acknowledged and dropped under dmPolicy open, which accepts
\* every direct message
C8_Witness ==
    /\ SelfEcho
    /\ account.config.dmPolicy = "open"
    /\ OrElse(h.body.payload, <<>>).participant = None
    /\ h.pc = "done"
    /\ Responses = <<Ok200>>

----------------------------------------------------------------------------
(* Claims about the outbound dispatch (SpecOutbound) *)

\* the client calls of the current dispatch, in the order they were started
OpSends == SelectSeq(op.trace, LAMBDA e : e.ev \in SendEvents)

\* the number of chunks the dispatch splits its text into: none for a text
\* without content, otherwise ceil(length / limit)
OpChunkCount ==
    IF HasContent(op.payload.text)
    THEN (op.payload.text.len + TextChunkLimit - 1) \div TextChunkLimit
    ELSE 0

OpMedia == payloadMediaUrls(op.payload)

OpLocationCount == IF op.payload.location # None THEN 1 ELSE 0

OpFragmentCount == OpChunkCount + Len(OpMedia) + OpLocationCount

\* the k-th client call is the k-th fragment of the dispatch: chunk k of the
\* text, then media URL k - N, then the location
IsFragment(sent, k) ==
    LET chatId == normalizeWahaTarget(op.to)
    IN IF k <= OpChunkCount
       THEN sent = SendText(chatId,
                            chunkMarkdownText(op.payload.text, TextChunkLimit)[k])
       ELSE IF k <= OpChunkCount + Len(OpMedia)
       THEN sent = SendImage(chatId, OpMedia[k - OpChunkCount])
       ELSE sent.ev = "sendLocation" /\ sent.chatId = chatId

\* C9: a sendPayload dispatch whose text splits into N chunks, with M media URLs
\* and optional location data, issues exactly N sendText calls in chunk order,
\* then M sendImage calls in list order, then at most one sendLocation call, and
\* starts no call before the promise of the previous call has resolved
C9_OutboundOrdering ==
    op.pc \in {"sending", "returned", "threw"} =>
        /\ Len(OpSends) <= OpFragmentCount
        /\ \A k \in 1..Len(OpSends) : IsFragment(OpSends[k], k)
        /\ \A i \in 2..Len(op.trace) :
              op.trace[i].ev \in SendEvents => op.trace[i - 1] = Settled(TRUE)
        /\ op.pc = "returned" => Len(OpSends) = OpFragmentCount

C9_Witness ==
    /\ op.pc = "returned"
    /\ OpChunkCount = 2
    /\ Len(OpMedia) = 2
    /\ OpLocationCount = 1
    /\ Len(OpSends) = 5

\* C10: when a send call of a dispatch fails, the exception leaves the dispatch
\* (it ends throwing, without a result), no later fragment of the dispatch is
\* sent, and no fragment already sent is sent again
C10_FailureAbortsDispatch ==
    op.pc \in {"sending", "returned", "threw"} =>
        /\ \A i \in 1..Len(op.trace) :
              op.trace[i] = Settled(FALSE) =>
                  /\ i = Len(op.trace)
                  /\ op.pc = "threw"
                  /\ op.error # None
                  /\ op.result = None
        /\ \A i, j \in 1..Len(OpSends) : i # j => OpSends[i] # OpSends[j]

C10_Witness ==
    /\ op.pc = "threw"
    /\ Len(OpSends) >= 2
    /\ Len(OpSends) < OpFragmentCount
    /\ op.trace[Len(op.trace)] = Settled(FALSE)

----------------------------------------------------------------------------
(* Claims about the target conversions (SpecNormalize) *)

\* C11: normalizeWahaTarget is idempotent for every input string:
\* normalizeWahaTarget(normalizeWahaTarget(x)) = normalizeWahaTarget(x)
C11_NormalizeIdempotent ==
    call.pc = "renormalized" => call.twice = call.once

\* the digit strings, with and without the plus sign
IsDigitString(s) == s # <<>> /\ \A i \in 1..Len(s) : IsDigit(s[i])

\* C12: for every non-empty digit string d, chatIdToE164(normalizeWahaTarget(d))
\* and chatIdToE164(normalizeWahaTarget("+" + d)) both equal "+" + d
C12_E164RoundTrip ==
    call.pc = "converted" =>
        /\ IsDigitString(call.input) => call.e164 = <<"+">> \o call.input
        /\ (StartsWith(call.input, "+") /\ IsDigitString(Tail(call.input))) =>
              call.e164 = call.input

C12_Witness ==
    /\ call.pc = "converted"
    /\ call.input = <<"+", "1", "2">>
    /\ call.once = <<"1", "2", "@c.us">>
    /\ call.e164 = <<"+", "1", "2">>

----------------------------------------------------------------------------
(* Claims about the account lifecycle (SpecLifecycle) *)

\* the routes registered for an account
RoutesOf(a) == { r \in gw.routes : r.accountId = a }

\* C13: once the abort signal passed to startAccount has fired and startAccount
\* has returned, the account's webhook route is unregistered and its runtime
\* state has running = false with a stop timestamp, whether the abort came
\* during the session probe or after the listener was added
C13_AbortTearsDown ==
    \A a \in LifecycleAccounts :
        (gw.aborted[a] /\ gw.pc[a] = "monitoring") =>
            /\ RoutesOf(a) = {}
            /\ gw.state[a].running = FALSE
            /\ gw.state[a].lastStopAt # "null"

\* C15: an account started without an explicit webhookPath is registered at
\* /waha/webhook when it is the default account and at /waha/webhook/<accountId>
\* when it is a named account, so two such accounts never share a route path
C15_PerAccountRoute ==
    /\ \A a \in LifecycleAccounts :
          (gw.pc[a] = "monitoring" /\ gw.webhookPath[a] = None) =>
              \A r \in RoutesOf(a) :
                  r.path = IF a = DEFAULT_ACCOUNT_ID THEN DefaultWebhookPath
                           ELSE DefaultWebhookPath \o <<"/", a>>
    /\ \A r1, r2 \in gw.routes :
          (/\ r1.accountId # r2.accountId
           /\ gw.webhookPath[r1.accountId] = None
           /\ gw.webhookPath[r2.accountId] = None) => r1.path # r2.path

----------------------------------------------------------------------------
(* Claims about the webhook handler's errors and methods (Spec) *)

Err500 == Respond(500, "application/json", "error: Internal server error", "")

\* the position of the first event of the trace with one of the names, 0 if none
FirstOf(names) ==
    LET at == { i \in 1..Len(h.trace) : h.trace[i].ev \in names }
    IN IF at = {} THEN 0 ELSE CHOOSE i \in at : \A j \in at : i <= j

\* the handler's catch block ran
Caught == \E i \in 1..Len(h.trace) : h.trace[i] = LogError("webhook error")

CaughtAt == CHOOSE i \in 1..Len(h.trace) : h.trace[i] = LogError("webhook error")

\* the signature gate lets the request through
Authenticated == BodyRead /\ (KeyConfigured => SignatureAuthentic)

C19_MethodDispatch ==
    /\ h.method = "GET" =>
          /\ h.pc = "done"
          /\ h.trace = << Respond(200, "text/plain", "OK", "") >>
          /\ ~BodyRead
    /\ h.method \notin {"", "GET", "POST"} =>
          /\ h.pc = "done"
          /\ Len(h.trace) = 1
          /\ h.trace[1].ev = "respond"
          /\ h.trace[1].status = 405
          /\ h.trace[1].allow = "GET, POST"
          /\ ~BodyRead

C19_Witness ==
    /\ KeyConfigured
    /\ h.method = "GET"
    /\ h.sig = HdrUndefined
    /\ Responses = << Respond(200, "text/plain", "OK", "") >>

KnownEvents == MessageEvents \cup {"message.reaction", "session.status"}

\* C20: an authenticated POST whose event kind is none of message, message.any,
\* message.reaction and session.status is answered 200, invokes none of
\* onMessage, onReaction and onSessionStatus, and is never turned into an error
\* response
C20_UnknownEventIgnored ==
    (/\ h.pc = "done"
     /\ Authenticated
     /\ h.body.json = "object"
     /\ h.body.event \notin KnownEvents) =>
        /\ Responses = <<Ok200>>
        /\ ~TraceHas(CallbackEvents \cup SendEvents \cup {"logError"})

C20_Witness ==
    /\ h.pc = "done"
    /\ BodyRead
    /\ h.body.json = "object"
    /\ h.body.event = "message.ack"
    /\ KeyConfigured
    /\ SignatureAuthentic
    /\ h.body.payload # None
    /\ Responses = <<Ok200>>

----------------------------------------------------------------------------
(* Claims about the account functions (SpecAccounts) *)

\* the channel section of the configuration of the current call
CallSection == OrElse(call.cfg, EmptyWahaConfig)

\* the entries of the named-accounts map under a key
EntriesUnder(id) ==
    { CallSection.accounts[i].entry :
        i \in { j \in 1..Len(CallSection.accounts) : CallSection.accounts[j].id = id } }

\* the call names an account other than the default one, present in the map
NamedAccountCall ==
    /\ call.pc = "resolved"
    /\ call.accountId \notin {Undefined, "", DEFAULT_ACCOUNT_ID}
    /\ EntriesUnder(call.accountId) # {}

\* C16: resolveWahaAccount for a named account present in the accounts map
\* returns the named entry's session (never the channel-wide session or
\* "default"), the channel-wide url and apiKey, and for each of allowFrom,
\* groupAllowFrom, dmPolicy and groupPolicy the entry's value if set, otherwise
\* the channel-wide value
C16_NamedAccountMerge ==
    NamedAccountCall =>
        \A e \in EntriesUnder(call.accountId) :
            /\ call.result.accountId = call.accountId
            /\ call.result.session = e.session
            /\ call.result.url = IF CallSection.url = Undefined THEN ""
                                 ELSE CallSection.url
            /\ call.result.apiKey = IF CallSection.apiKey = Undefined THEN ""
                                    ELSE CallSection.apiKey
            /\ call.result.config.allowFrom =
                  IF e.allowFrom # None THEN e.allowFrom ELSE CallSection.allowFrom
            /\ call.result.config.groupAllowFrom =
                  IF e.groupAllowFrom # None THEN e.groupAllowFrom
                  ELSE CallSection.groupAllowFrom
            /\ call.result.config.dmPolicy =
                  IF e.dmPolicy # Undefined THEN e.dmPolicy ELSE CallSection.dmPolicy
            /\ call.result.config.groupPolicy =
                  IF e.groupPolicy # Undefined THEN e.groupPolicy
                  ELSE CallSection.groupPolicy

C16_Witness ==
    /\ NamedAccountCall
    /\ CallSection.session = "s"
    /\ CallSection.dmPolicy = "pairing"
    /\ call.result.session = Undefined
    /\ call.result.config.dmPolicy = "pairing"
    /\ call.result.config.groupPolicy = "disabled"
    /\ call.result.config.allowFrom = Some(<< <<"+", "2">> >>)
    /\ call.result.config.groupAllowFrom = Some(<< <<"1", "@c.us">> >>)

\* url, apiKey and session of the channel section are all populated
DefaultCredentialed ==
    /\ call.cfg # None
    /\ CallSection.url \notin {Undefined, ""}
    /\ CallSection.apiKey \notin {Undefined, ""}
    /\ CallSection.session \notin {Undefined, ""}

CallKeys == [i \in 1..Len(CallSection.accounts) |-> CallSection.accounts[i].id]

\* C17: listWahaAccountIds returns a duplicate-free list that contains the
\* default account id, in first position, if and only if the channel-wide url,
\* apiKey and session are all populated, followed by every key of the
\* named-accounts map in map order
C17_ListDefaultFirst ==
    call.pc = "listed" =>
        LET ids == call.ids
            named == IF DefaultCredentialed THEN Tail(ids) ELSE ids
        IN /\ \A i, j \in 1..Len(ids) : i # j => ids[i] # ids[j]
           /\ (\E i \in 1..Len(ids) : ids[i] = DEFAULT_ACCOUNT_ID) <=> DefaultCredentialed
           /\ DefaultCredentialed => ids[1] = DEFAULT_ACCOUNT_ID
           /\ named = SelectSeq(CallKeys, LAMBDA k : k # DEFAULT_ACCOUNT_ID)

\* C18: resolveDefaultWahaAccountId returns the default sentinel when the default
\* account is fully credentialed, otherwise the first key of the named-accounts
\* map, and the sentinel only when no named account exists; whenever
\* listWahaAccountIds(cfg) is non-empty the returned id is its first element
C18_DefaultIdIsFirstListed ==
    call.pc = "defaultResolved" =>
        /\ DefaultCredentialed => call.defaultId = DEFAULT_ACCOUNT_ID
        /\ (~DefaultCredentialed /\ CallKeys # <<>>) => call.defaultId = CallKeys[1]
        /\ (~DefaultCredentialed /\ CallKeys = <<>>) => call.defaultId = DEFAULT_ACCOUNT_ID
        /\ call.ids # <<>> => call.defaultId = call.ids[1]

----------------------------------------------------------------------------
(* The CLI i18n module: src/src/i18n (types, loader.ts, index.ts) *)

\* A locale string is a sequence of tokens: language codes, region codes,
\* an encoding name and the separators "_", "-", "." and the blank.
DEFAULT_LOCALE == "en"

SUPPORTED_LOCALES == <<"en", "pt">>

\* SUPPORTED_LOCALES.includes(s) for a string s
IsSupportedLocale(s) ==
    Len(s) = 1 /\ \E i \in 1..Len(SUPPORTED_LOCALES) : SUPPORTED_LOCALES[i] = s[1]

LowerTok(tok) ==
    CASE tok = "EN" -> "en"
      [] tok = "PT" -> "pt"
      [] tok = "BR" -> "br"
      [] tok = "US" -> "us"
      [] tok = "UTF-8" -> "utf-8"
      [] OTHER -> tok

\* String.prototype.toLowerCase
toLowerCase(s) == [i \in 1..Len(s) |-> LowerTok(s[i])]

\* s.split(separator)[0]: the text before the first separator character
SplitFirst(s, seps) ==
    IF \E i \in 1..Len(s) : s[i] \in seps
    THEN LET first == CHOOSE i \in 1..Len(s) :
                          /\ s[i] \in seps
                          /\ \A j \in 1..(i - 1) : s[j] \notin seps
         IN SubSeq(s, 1, first - 1)
    ELSE s

\* the locale argument is None for undefined, Some(string) otherwise
normalizeLocale(locale) ==
    IF locale = None \/ locale = Some(<<>>) THEN DEFAULT_LOCALE
    ELSE LET normalized == Trim(toLowerCase(OrElse(locale, <<>>)))
             langPrefix == SplitFirst(normalized, {"-", "_"})
         IN IF IsSupportedLocale(normalized) THEN normalized[1]
            ELSE IF IsSupportedLocale(langPrefix) THEN langPrefix[1]
            ELSE DEFAULT_LOCALE

EnvNames == <<"OPENCLAW_LANGUAGE", "LANG", "LC_ALL", "LC_MESSAGES">>

\* what one candidate of detectSystemLocale yields: None when the loop goes on
detectCandidate(candidate) ==
    IF candidate = None \/ candidate = Some(<<>>) THEN None
    ELSE LET normalized == SplitFirst(toLowerCase(OrElse(candidate, <<>>)), {"."})
             langPrefix == SplitFirst(normalized, {"_"})
         IN IF IsSupportedLocale(normalized) THEN Some(normalized[1])
            ELSE IF IsSupportedLocale(langPrefix) THEN Some(langPrefix[1])
            ELSE None

RECURSIVE detectFrom(_, _)
detectFrom(env, i) ==
    IF i > Len(EnvNames) THEN DEFAULT_LOCALE
    ELSE LET found == detectCandidate(env[EnvNames[i]])
         IN IF found # None THEN OrElse(found, DEFAULT_LOCALE)
            ELSE detectFrom(env, i + 1)

\* detectSystemLocale deciding on the first variable that is set, whatever it holds
detectSystemLocale_FirstSetOnly(env) ==
    LET set == {i \in 1..Len(EnvNames) : env[EnvNames[i]] \notin {None, Some(<<>>)}}
    IN IF set = {} THEN DEFAULT_LOCALE
       ELSE LET first == CHOOSE i \in set : \A j \in set : i <= j
            IN OrElse(detectCandidate(env[EnvNames[first]]), DEFAULT_LOCALE)

detectSystemLocale(env) == detectFrom(env, 1)

\* Translation text: a sequence of pieces, literal text or a {{name}} placeholder
Lit(text) == [kind |-> "lit", text |-> text]

Ph(name) == [kind |-> "ph", text |-> name]

\* JavaScript values a dictionary slot can yield
Str(pieces) == [type |-> "string", pieces |-> pieces]

NativeFunction(name) == [type |-> "function", pieces |-> <<Lit(name)>>]

\* the properties every plain object inherits from Object.prototype
ObjectPrototypeNames == {"constructor", "toString"}

\* key in dict
KeyIn(key, dict) ==
    \/ key \in DOMAIN dict
    \/ \E n \in ObjectPrototypeNames : key = <<Lit(n)>>

\* dict[key], for a key that is in dict
DictGet(dict, key) ==
    IF key \in DOMAIN dict THEN Str(dict[key]) ELSE NativeFunction(key[1].text)

\* key in params
NameIn(name, params) == name \in DOMAIN params \/ name \in ObjectPrototypeNames

\* String(params[key])
ParamString(params, name) ==
    IF name \in DOMAIN params THEN params[name]
    ELSE IF name = "constructor" THEN "function Object() { [native code] }"
    ELSE "function toString() { [native code] }"

\* params is None for undefined, Some(object) otherwise; template.replace
\* exists on strings only
interpolate(template, params) ==
    IF params = None THEN Returned(template)
    ELSE IF template.type # "string" THEN Threw
    ELSE LET p == OrElse(params, <<>>)
             replaced(piece) ==
                 IF piece.kind = "ph" /\ NameIn(piece.text, p)
                 THEN Lit(ParamString(p, piece.text))
                 ELSE piece
         IN Returned(Str([i \in 1..Len(template.pieces) |->
                              replaced(template.pieces[i])]))

\* The locale files on disk: each supported locale has a dictionary, empty
\* when its file is missing or unreadable
KeyYes == <<Lit("common.yes")>>

KeyPort == <<Lit("onboard.quickstart.gatewayPort")>>

KeyHelp == <<Lit("common.help")>>

EnFile ==
    [k \in {KeyYes, KeyPort, KeyHelp} |->
        IF k = KeyYes THEN <<Lit("Yes")>>
        ELSE IF k = KeyPort THEN <<Lit("Gateway port: "), Ph("port")>>
        ELSE <<Lit("Help for "), Ph("name"), Lit(" on "), Ph("port")>>]

PtFile ==
    [k \in {KeyYes, KeyPort} |->
        IF k = KeyYes THEN <<Lit("Sim")>>
        ELSE <<Lit("Porta do gateway: "), Ph("port")>>]

MissingFile == [k \in {} |-> <<>>]

LocaleFiles ==
    { [l \in {"en", "pt"} |-> IF l = "en" THEN EnFile ELSE pt] :
          pt \in {PtFile, MissingFile} }

loadAllTranslations(files) ==
    [l \in {SUPPORTED_LOCALES[i] : i \in 1..Len(SUPPORTED_LOCALES)} |-> files[l]]

\* translations.get(locale)
MapGet(map, locale) == IF locale \in DOMAIN map THEN Some(map[locale]) ELSE None

\* the module state of index.ts after import
I18nModuleInit ==
    [currentLocale |-> DEFAULT_LOCALE,
     translations |-> [l \in {} |-> MissingFile],
     initialized |-> FALSE]

\* options is None for a call without argument
initI18n(m, options, env, files) ==
    LET o == OrElse(options, [locale |-> None, configLocale |-> None])
        chosen == IF o.locale \notin {None, Some(<<>>)}
                  THEN normalizeLocale(o.locale)
                  ELSE IF o.configLocale \notin {None, Some(<<>>)}
                  THEN normalizeLocale(o.configLocale)
                  ELSE detectSystemLocale(env)
    IN [currentLocale |-> chosen,
        translations |-> loadAllTranslations(files),
        initialized |-> TRUE]

getLocale(m) == m.currentLocale

setLocale(m, locale) == [m EXCEPT !.currentLocale = normalizeLocale(Some(locale))]

\* t: the module state it leaves and what the call yields
t(m, key, params, env, files) ==
    LET m1 == IF ~m.initialized THEN initI18n(m, None, env, files) ELSE m
        currentDict == MapGet(m1.translations, m1.currentLocale)
        defaultDict == MapGet(m1.translations, DEFAULT_LOCALE)
        cur == OrElse(currentDict, MissingFile)
        def == OrElse(defaultDict, MissingFile)
    IN [m |-> m1,
        out |-> IF currentDict # None /\ KeyIn(key, cur)
                THEN interpolate(DictGet(cur, key), params)
                ELSE IF /\ m1.currentLocale # DEFAULT_LOCALE
                        /\ defaultDict # None
                        /\ KeyIn(key, def)
                THEN interpolate(DictGet(def, key), params)
                ELSE interpolate(Str(key), params)]

hasTranslation(m, key, locale) ==
    LET dict == MapGet(m.translations, OrElse(locale, m.currentLocale))
    IN IF dict # None THEN KeyIn(key, OrElse(dict, MissingFile)) ELSE FALSE

\* Object.keys(dict), as the set of the keys
getTranslationKeys(m, locale) ==
    LET dict == MapGet(m.translations, OrElse(locale, m.currentLocale))
    IN IF dict # None THEN DOMAIN OrElse(dict, MissingFile) ELSE {}

getMissingKeys(m, locale) ==
    LET targetLocale == OrElse(locale, m.currentLocale)
    IN IF targetLocale = DEFAULT_LOCALE THEN {}
       ELSE getTranslationKeys(m, Some(DEFAULT_LOCALE))
                \ getTranslationKeys(m, Some(targetLocale))

\* Inputs of the i18n specification
EnvValues ==
    [OPENCLAW_LANGUAGE : {None, Some(<<"fr">>), Some(<<"pt">>)},
     LANG : {None, Some(<<"pt", "_", "BR", ".", "UTF-8">>), Some(<<"pt", "-", "BR">>)},
     LC_ALL : {None, Some(<<"EN", "_", "US">>)},
     LC_MESSAGES : {None, Some(<<>>)}]

LocaleArgs ==
    {<<"pt">>, <<"en">>, <<"PT", "-", "BR">>, <<" ", "pt", " ">>, <<"fr">>,
     <<"pt", ".", "UTF-8">>, <<>>}

ConfigLocaleArgs == {<<"pt", "_", "BR">>, <<"fr">>}

InitOptions ==
    {None} \cup
    {Some([locale |-> l, configLocale |-> c]) :
         l \in {None} \cup {Some(x) : x \in LocaleArgs},
         c \in {None} \cup {Some(x) : x \in ConfigLocaleArgs}}

KeyArgs ==
    {KeyYes, KeyPort, KeyHelp, <<Lit("nonexistent.key")>>,
     <<Lit("missing "), Ph("port")>>, <<Lit("constructor")>>}

ParamsArgs ==
    {None, Some([n \in {} |-> ""]), Some([n \in {"port"} |-> "8080"]),
     Some([n \in {"port", "name"} |-> IF n = "port" THEN "8080" ELSE "Ana"])}

LocaleParamArgs == {None, Some("en"), Some("pt")}

\* pinned is the locale the last setLocale call chose, None after an explicit
\* initI18n call or before any setLocale call
I18nInit ==
    /\ AccessUnused
    /\ WebhookUnused
    /\ OutboundUnused
    /\ CallUnused
    /\ GatewayUnused
    /\ \E env \in EnvValues, files \in LocaleFiles :
           i18n = [pc |-> "ready", env |-> env, files |-> files,
                   m |-> I18nModuleInit, pinned |-> None,
                   last |-> [op |-> "import"]]

I18nUnchanged ==
    UNCHANGED <<accessVars, webhookVars, outboundVars, callVars, gatewayVars>>

InitI18nCalled ==
    /\ \E options \in InitOptions :
           i18n' = [i18n EXCEPT
                        !.m = initI18n(@, options, i18n.env, i18n.files),
                        !.pinned = None,
                        !.last = [op |-> "initI18n", options |-> options]]
    /\ I18nUnchanged

SetLocaleCalled ==
    /\ \E locale \in LocaleArgs :
           i18n' = [i18n EXCEPT
                        !.m = setLocale(@, locale),
                        !.pinned = Some(normalizeLocale(Some(locale))),
                        !.last = [op |-> "setLocale", locale |-> locale]]
    /\ I18nUnchanged

TCalled ==
    /\ \E key \in KeyArgs, params \in ParamsArgs :
           LET r == t(i18n.m, key, params, i18n.env, i18n.files)
           IN i18n' = [i18n EXCEPT
                           !.m = r.m,
                           !.last = [op |-> "t", key |-> key, params |-> params,
                                     out |-> r.out]]
    /\ I18nUnchanged

HasTranslationCalled ==
    /\ \E key \in {KeyYes, KeyHelp, <<Lit("constructor")>>},
          locale \in LocaleParamArgs :
           i18n' = [i18n EXCEPT
                        !.last = [op |-> "hasTranslation", key |-> key,
                                  locale |-> locale,
                                  out |-> hasTranslation(i18n.m, key, locale)]]
    /\ I18nUnchanged

GetTranslationKeysCalled ==
    /\ \E locale \in LocaleParamArgs :
           i18n' = [i18n EXCEPT
                        !.last = [op |-> "getTranslationKeys", locale |-> locale,
                                  out |-> getTranslationKeys(i18n.m, locale)]]
    /\ I18nUnchanged

GetMissingKeysCalled ==
    /\ \E locale \in LocaleParamArgs :
           i18n' = [i18n EXCEPT
                        !.last = [op |-> "getMissingKeys", locale |-> locale,
                                  out |-> getMissingKeys(i18n.m, locale)]]
    /\ I18nUnchanged

I18nNext ==
    \/ InitI18nCalled
    \/ SetLocaleCalled
    \/ TCalled
    \/ HasTranslationCalled
    \/ GetTranslationKeysCalled
    \/ GetMissingKeysCalled

SpecI18n == I18nInit /\ [][I18nNext]_vars

----------------------------------------------------------------------------
(* Claims about the CLI i18n module *)

I18nReady == i18n.pc = "ready"

\* the parameter names a call of t supplies
SuppliedNames(params) == IF params = None THEN {} ELSE DOMAIN OrElse(params, <<>>)

\* a text with each placeholder whose parameter is supplied replaced by the
\* parameter's value, the others left as they are
Substituted(pieces, params) ==
    [i \in 1..Len(pieces) |->
        IF pieces[i].kind = "ph" /\ pieces[i].text \in SuppliedNames(params)
        THEN Lit(OrElse(params, <<>>)[pieces[i].text])
        ELSE pieces[i]]

\* C21: t(key, params) returns the current locale's entry for key if the
\* locale's dictionary has one, else the English entry if there is one, else
\* the key itself; in each case every {{name}} placeholder is replaced by
\* params[name] when that parameter is supplied and left verbatim otherwise
C21_LookupChain ==
    (I18nReady /\ i18n.last.op = "t") =>
        LET current == i18n.m.translations[getLocale(i18n.m)]
            english == i18n.m.translations[DEFAULT_LOCALE]
            key == i18n.last.key
            entry == IF key \in DOMAIN current THEN current[key]
                     ELSE IF key \in DOMAIN english THEN english[key]
                     ELSE key
        IN /\ ~i18n.last.out.threw
           /\ i18n.last.out.value = Str(Substituted(entry, i18n.last.params))

\* s names the language l: it is l, or l followed by one of the separators
NamesLanguage(s, l, seps) == Len(s) >= 1 /\ s[1] = l /\ (Len(s) = 1 \/ s[2] \in seps)

SupportedSet == {SUPPORTED_LOCALES[i] : i \in 1..Len(SUPPORTED_LOCALES)}

\* the locale an option value stands for: case and surrounding blanks are
\* ignored, a region after "-" or "_" is dropped, anything else is "en"
OptionLocale(s) ==
    LET v == Trim(toLowerCase(s))
    IN IF \E l \in SupportedSet : NamesLanguage(v, l, {"-", "_"})
       THEN CHOOSE l \in SupportedSet : NamesLanguage(v, l, {"-", "_"})
       ELSE DEFAULT_LOCALE

\* the i-th environment variable names the supported locale l: case is
\* ignored, a region after "_" or an encoding after "." is dropped
EnvNamesLocale(i, l) ==
    LET v == i18n.env[EnvNames[i]]
    IN v # None /\ NamesLanguage(toLowerCase(OrElse(v, <<>>)), l, {".", "_"})

EnvRecognised(i) == \E l \in SupportedSet : EnvNamesLocale(i, l)

IsSet(opt) == opt \notin {None, Some(<<>>)}

LastInitOptions ==
    OrElse(i18n.last.options, [locale |-> None, configLocale |-> None])

\* C22 amended: initI18n takes the explicit locale option if non-empty, else
\* the configLocale option if non-empty, and normalizes it, an unsupported
\* value giving "en"; without either option it takes the first of
\* OPENCLAW_LANGUAGE, LANG, LC_ALL, LC_MESSAGES whose value names a supported
\* locale, variables with an unsupported value being passed over, and "en" when
\* there is none; getLocale() is always a member of SUPPORTED_LOCALES
C22_LocalePriority ==
    I18nReady =>
        /\ getLocale(i18n.m) \in SupportedSet
        /\ i18n.last.op = "initI18n" =>
               LET o == LastInitOptions
                   recognised == {i \in 1..Len(EnvNames) : EnvRecognised(i)}
               IN IF IsSet(o.locale)
                  THEN getLocale(i18n.m) = OptionLocale(OrElse(o.locale, <<>>))
                  ELSE IF IsSet(o.configLocale)
                  THEN getLocale(i18n.m) = OptionLocale(OrElse(o.configLocale, <<>>))
                  ELSE IF recognised = {}
                  THEN getLocale(i18n.m) = DEFAULT_LOCALE
                  ELSE \E i \in recognised :
                           /\ \A j \in recognised : i <= j
                           /\ EnvNamesLocale(i, getLocale(i18n.m))

\* C22 as stated: without options the first environment variable that is set is
\* the chosen value, and an unsupported chosen value yields "en"
C22_AsStated ==
    (I18nReady /\ i18n.last.op = "initI18n"
         /\ ~IsSet(LastInitOptions.locale) /\ ~IsSet(LastInitOptions.configLocale)) =>
        LET set == {i \in 1..Len(EnvNames) : IsSet(i18n.env[EnvNames[i]])}
        IN \A i \in set :
               ((\A j \in set : i <= j) /\ ~EnvRecognised(i)) =>
                   getLocale(i18n.m) = DEFAULT_LOCALE

\* initI18n ran without options, the first variable that is set holds an
\* unsupported value and a later one decided
C22_Witness ==
    /\ I18nReady
    /\ i18n.last.op = "initI18n"
    /\ i18n.last.options = None
    /\ i18n.env.OPENCLAW_LANGUAGE = Some(<<"fr">>)
    /\ i18n.env.LANG = Some(<<"pt", "_", "BR", ".", "UTF-8">>)
    /\ getLocale(i18n.m) = "pt"

\* C30: after setLocale(l) the current locale is normalizeLocale(l) and stays
\* so until the next setLocale or explicit initI18n call, whatever calls of t,
\* hasTranslation, getTranslationKeys or getMissingKeys come in between,
\* including when setLocale was called before the module was initialized
C30_SetLocalePersists ==
    (I18nReady /\ i18n.pinned # None) => i18n.pinned = Some(getLocale(i18n.m))

----------------------------------------------------------------------------
(* Claims about the message handler's rejections and failures (SpecMonitor) *)

\* the access decision of the current invocation is a rejection for a reason
\* other than "pairing required"
FinalRejection ==
    \E i \in 1..Len(h.trace) :
        /\ h.trace[i].ev = "checkAccess"
        /\ ~h.trace[i].access.allowed
        /\ h.trace[i].access.reason # "pairing required"

FinalRejectionReason ==
    (CHOOSE e \in { h.trace[i] : i \in 1..Len(h.trace) } :
         e.ev = "checkAccess").access.reason

\* C23: handling an inbound message that is rejected for any reason other than
\* "pairing required" makes no outbound send call, no pairing-request upsert
\* and no call into the reply-dispatch pipeline
C23_SilentDrop ==
    FinalRejection =>
        /\ h.pc = "done"
        /\ ~TraceHas(SendEvents \cup {"buildPairingReply", "upsertPairingRequest",
                                      "dispatchReply", "deliver"})

\* a direct message was rejected under dmPolicy allowlist and its handling ended
C23_Witness ==
    /\ FinalRejection
    /\ FinalRejectionReason = "sender not in allowlist"
    /\ HandledPayload.participant = None
    /\ h.pc = "done"
    /\ Responses = <<Ok200>>

\* the position in the trace at which the reply pipeline rejected
RejectedAt ==
    CHOOSE i \in 1..Len(h.trace) : h.trace[i].ev = "dispatchRejected"

AfterRejection == SubSeq(h.trace, RejectedAt + 1, Len(h.trace))

\* C24: when the reply-dispatch pipeline throws for an accepted message, the
\* handler makes exactly one fallback sendText, the generic apology, to the
\* originating chat; a failure of that send is only logged: handleMessage
\* still resolves and no further send is attempted
C24_SingleFallback ==
    TraceHas({"dispatchRejected"}) =>
        /\ SelectSeq(AfterRejection, LAMBDA e : e.ev \in SendEvents)
             = << SendText(HandledPayload.from, ApologyText) >>
        /\ CountOf({"dispatchRejected"}) = 1
        /\ h.pc \in {"fallbackSend", "done"}
        /\ ~\E i \in 1..Len(h.trace) :
               h.trace[i] = LogError("webhook message handler failed")
        /\ (\E i \in 1..Len(AfterRejection) : AfterRejection[i] = Settled(FALSE)) =>
               /\ h.pc = "done"
               /\ h.trace[Len(h.trace)] = LogError("error reply failed")
               /\ h.trace[Len(h.trace) - 1] = Settled(FALSE)

\* the pipeline rejected after a reply had been delivered, and the apology send
\* failed as well
C24_Witness ==
    /\ TraceHas({"dispatchRejected"})
    /\ TraceHas({"delivered"})
    /\ h.pc = "done"
    /\ h.trace[Len(h.trace)] = LogError("error reply failed")

----------------------------------------------------------------------------
(* Claims about the host-side target normalizer (SpecNormalize) *)

\* C26: for every non-blank target string x,
\* normalizeWahaTarget(messaging.normalizeTarget(x)) equals
\* normalizeWahaTarget(x): a target pre-normalized by the host resolves on the
\* send path to the same chat id as the raw target
C26_NormalizersAgree ==
    call.pc = "resolved" => call.viaHost = call.direct

----------------------------------------------------------------------------
(* Claims about the normalized message context (SpecAccess) *)

\* C25: in the context built for any inbound message SenderE164 equals
\* chatIdToE164(SenderId); for every message classified as group (payload.from
\* ends with @g.us or @newsletter) SenderId is the group participant and never
\* the group chat id, while From and the session key carry the group chat id
C25_SenderIsParticipant ==
    acOut.evaluated =>
        LET ctx == acOut.ctx
            payload == acIn.payload
        IN /\ ctx.SenderE164 = chatIdToE164(ctx.SenderId)
           /\ isGroupChatId(payload.from) =>
                  /\ ctx.isGroup
                  /\ ctx.SenderId # payload.from
                  /\ Some(ctx.SenderId) = payload.participant
                  /\ ctx.From = payload.from
                  /\ ctx.SessionKey = <<"waha:", "default", ":">> \o payload.from

----------------------------------------------------------------------------
(* Claims about the setup and config adapters (SpecAccounts) *)

\* the account ids a claim about a configuration looks at: the listed ones and
\* the ones the adapters are called with
IdsOfInterest(cfg) ==
    {listWahaAccountIds(cfg)[i] : i \in 1..Len(listWahaAccountIds(cfg))}
        \cup SetupAccountIds

IsListed(cfg, id) == Includes(listWahaAccountIds(cfg), id)

\* C27: after setup.applyAccountConfig for an account id A and an input that
\* setup.validateInput accepts, applied to any starting configuration, A is in
\* listWahaAccountIds of the result and resolveWahaAccount for A in it
\* satisfies isWahaAccountConfigured; in general an account is listed exactly
\* when its resolved record is configured
C27_SetupListsConfigured ==
    (call.pc = "applied" /\ call.valid = "null") =>
        /\ IsListed(call.result, call.accountId)
        /\ isWahaAccountConfigured(resolveWahaAccount(call.result, call.accountId))
        /\ \A id \in IdsOfInterest(call.result) :
               IsListed(call.result, id) <=>
                   isWahaAccountConfigured(resolveWahaAccount(call.result, id))

\* the accounts listed before the call, aside from the one the call is about
\* and from keys that resolve to it
OtherListed ==
    { B \in {listWahaAccountIds(call.cfg)[i] :
                i \in 1..Len(listWahaAccountIds(call.cfg))} :
        normalizeAccountId(B) # normalizeAccountId(call.accountId) }

\* C28: config.deleteAccount and config.setAccountEnabled for account A leave
\* resolveWahaAccount(B) in the resulting configuration equal to
\* resolveWahaAccount(B) before the call for every other listed account B, so
\* that B stays configured if it was; the input configuration is not changed
C28_OtherAccountsUntouched ==
    call.pc \in {"enabledSet", "deleted"} =>
        \A B \in OtherListed :
            /\ resolveWahaAccount(call.result, B) = resolveWahaAccount(call.cfg, B)
            /\ isWahaAccountConfigured(resolveWahaAccount(call.cfg, B)) =>
                   isWahaAccountConfigured(resolveWahaAccount(call.result, B))

----------------------------------------------------------------------------
(* Claims about restarts of one account's monitor (SpecRestart) *)

\* the monitor was started and its stop handler has not run
StartedNotStopped(m) == gw.pc[m] = "monitoring" /\ gw.unregistered[m] = 0

\* C29: for every interleaving of monitor starts and stops on one account, a
\* restart before the old monitor is stopped and a stop() after the abort
\* signal fired included, the runtime state's running flag is true exactly
\* when at least one started monitor of the account has not been stopped, and
\* each monitor's webhook unregister function is called at most once
C29_RunningIffMonitorLive ==
    ~GatewayUnused =>
        /\ \A a \in DOMAIN gw.state :
               gw.state[a].running <=>
                   \E m \in DOMAIN gw.pc : gw.accountOf[m] = a /\ StartedNotStopped(m)
        /\ \A m \in DOMAIN gw.pc : gw.unregistered[m] <= 1

====
